---- MODULE Spec2Model ----
(***************************************************************************)
(* Topic hierarchy / version engine (TopicService over TopicRepository     *)
(* over JsonDatabase) and the secure facade in front of it.                *)
(*                                                                         *)
(* Ids are naturals handed out by a counter (uuidv4 never repeats an id);  *)
(* Nil stands for undefined / null ids. Strings are sequences of           *)
(* characters so that trim() is computed. An optional record (T | null) is *)
(* a sequence of length 0 or 1.                                            *)
(*                                                                         *)
(* Spec, SpecSecure, SpecRoles and SpecStore follow calls that run one     *)
(* after the other; SpecInit and SpecRace follow async calls that overlap, *)
(* one step per resumption behind an await.                                *)
(***************************************************************************)
EXTENDS Naturals, Integers, Sequences, FiniteSets, TLC

\* ------------------------------------------------------------------ bounds
\* Number of ids uuidv4 hands out in one run.
MaxUuid == 4

\* --------------------------------------------------------------- constants
Nil == 0

SP == " "
Ids == 1..MaxUuid
\* Inputs the callers pass: names, contents, ids (stored or not).
NameInputs == {<<SP>>, <<"n">>}
NewNameInputs == {<<>>, <<SP>>, <<"m">>}
ContentInputs == {<<>>, <<"c">>}
NewContentInputs == {<<SP>>, <<"d">>}
IdInputs == Ids
ParentInputs == Ids \cup {Nil}
VersionInputs == {1, 2}

ADMIN == "Admin"
EDITOR == "Editor"
VIEWER == "Viewer"
UserRole == {ADMIN, EDITOR, VIEWER}
\* A role value outside the enum (data-integrity error).
RoleInputs == UserRole \cup {"Guest"}

\* data:         JsonDatabase.data, the Map's values in insertion order
\* nextUuid:     the next id uuidv4 yields in BaseEntity's constructor
\* createdUnder: history, the parentTopicId argument of the createTopic call
\*               that made each stored record
\* last:         the latest ITopicService call with its arguments and outcome
\* initialized:  JsonDatabase.initialized
\* file:         the JSON file: <<>> while it does not exist, else <<entities>>
\* inflight:     the async calls that have started and not returned yet, with
\*               the await they are suspended at and their locals
\* loads:        history, how many times initialize has replaced the map
\* acked:        history, the ids of the records whose create has returned
\*               and that no delete has removed since
VARIABLES data, nextUuid, createdUnder, last, initialized, file, inflight, loads, acked
vars == <<data, nextUuid, createdUnder, last, initialized, file, inflight, loads, acked>>

\* ----------------------------------------------------------------- strings
RECURSIVE TrimLeft(_)
TrimLeft(s) == IF s = <<>> THEN s
               ELSE IF Head(s) = SP THEN TrimLeft(Tail(s)) ELSE s

RECURSIVE TrimRight(_)
TrimRight(s) == IF s = <<>> THEN s
                ELSE IF s[Len(s)] = SP THEN TrimRight(SubSeq(s, 1, Len(s) - 1)) ELSE s

Trim(s) == TrimRight(TrimLeft(s))

\* ------------------------------------------------------------- Topic model
\* new Topic(name, content, version, parentTopicId, id, createdAt, updatedAt,
\* previousVersionId, rootTopicId); uuid is the value uuidv4() yields when id
\* is not given. A record built without createdAt is stamped with the clock
\* reading of its construction, counted here in ids handed out; updatedAt is
\* not kept.
Topic(name, content, version, parentTopicId, id, createdAt, previousVersionId, rootTopicId, uuid) ==
    LET theId == IF id # Nil THEN id ELSE uuid
    IN [id |-> theId,
        name |-> name,
        content |-> content,
        version |-> version,
        createdAt |-> IF createdAt # Nil THEN createdAt ELSE uuid,
        parentTopicId |-> parentTopicId,
        previousVersionId |-> previousVersionId,
        rootTopicId |-> IF rootTopicId # Nil THEN rootTopicId ELSE theId]

\* Topic.validate: "ok" or the error it throws.
Topic_validate(t) ==
    IF Len(t.name) = 0 \/ Len(Trim(t.name)) = 0 THEN "NameEmpty"
    ELSE IF Len(t.content) = 0 \/ Len(Trim(t.content)) = 0 THEN "ContentEmpty"
    ELSE IF t.version < 1 THEN "VersionInvalid"
    ELSE "ok"

\* Faulty variant: the new version is given an id of its own.
Topic_createNewVersion_FreshId(t, newContent, newName, uuid) ==
    Topic(IF Len(newName) > 0 THEN newName ELSE t.name, newContent, t.version + 1,
          t.parentTopicId, Nil, t.createdAt, t.id, t.rootTopicId, uuid)

\* Topic.createNewVersion(newContent, newName?): newName absent is <<>>.
Topic_createNewVersion(t, newContent, newName, uuid) ==
    Topic(IF Len(newName) > 0 THEN newName ELSE t.name, newContent, t.version + 1,
          t.parentTopicId, t.id, t.createdAt, t.id, t.rootTopicId, uuid)

\* Faulty variant: the parent id is not passed on, the child becomes a root topic.
Topic_createChildTopic_NoParent(t, name, content, uuid) ==
    Topic(name, content, 1, Nil, Nil, Nil, Nil, Nil, uuid)

\* Faulty variant: the child names itself as its parent.
Topic_createChildTopic_SelfParent(t, name, content, uuid) ==
    Topic(name, content, 1, uuid, Nil, Nil, Nil, Nil, uuid)

\* Topic.createChildTopic(name, content)
Topic_createChildTopic(t, name, content, uuid) ==
    Topic(name, content, 1, t.id, Nil, Nil, Nil, Nil, uuid)

\* ------------------------------------------------------------ JsonDatabase
\* data is the Map's values in insertion order.
Db_has(d, id) == \E i \in 1..Len(d) : d[i].id = id

Db_findAll(d) == d

Db_findById(d, id) == SelectSeq(d, LAMBDA t : t.id = id)

\* Faulty variant: create overwrites nothing and never rejects a duplicate id.
Db_create_NoDupCheck(d, e) == [err |-> "ok", data |-> Append(d, e)]

Db_create(d, e) ==
    IF Db_has(d, e.id) THEN [err |-> "AlreadyExists", data |-> d]
    ELSE [err |-> "ok", data |-> Append(d, e)]

\* Faulty variant: the has() guard is dropped and the call always reports success.
Db_delete_AlwaysTrue(d, id) ==
    [ok |-> TRUE, data |-> SelectSeq(d, LAMBDA t : t.id # id)]

Db_delete(d, id) ==
    IF ~Db_has(d, id) THEN [ok |-> FALSE, data |-> d]
    ELSE [ok |-> TRUE, data |-> SelectSeq(d, LAMBDA t : t.id # id)]

\* Faulty variant: the entity is added next to the record it replaces.
Db_update_Append(d, id, e) ==
    IF ~Db_has(d, id) THEN [outcome |-> "null", result |-> <<>>, data |-> d]
    ELSE IF e.id # id THEN [outcome |-> "IdMismatch", result |-> <<>>, data |-> d]
    ELSE [outcome |-> "ok", result |-> <<e>>, data |-> Append(d, e)]

\* JsonDatabase.update: Map.set on a key the map holds keeps the key's place.
Db_update(d, id, e) ==
    IF ~Db_has(d, id) THEN [outcome |-> "null", result |-> <<>>, data |-> d]
    ELSE IF e.id # id THEN [outcome |-> "IdMismatch", result |-> <<>>, data |-> d]
    ELSE [outcome |-> "ok", result |-> <<e>>,
          data |-> [i \in 1..Len(d) |-> IF d[i].id = id THEN e ELSE d[i]]]

\* ---------------------------------------------- BaseRepository / TopicRepository
\* Faulty variant: the entity is stored without validate().
Repo_create_NoValidate(d, e) == Db_create(d, e)

Repo_create(d, e) ==
    LET v == Topic_validate(e)
    IN IF v # "ok" THEN [err |-> v, data |-> d] ELSE Db_create(d, e)

Repo_findByParentId(d, parentTopicId) ==
    SelectSeq(d, LAMBDA t : t.parentTopicId = parentTopicId)

Repo_findRootTopics(d) == SelectSeq(d, LAMBDA t : t.parentTopicId = Nil)

Repo_findAllVersions(d, rootTopicId) ==
    SelectSeq(d, LAMBDA t : t.rootTopicId = rootTopicId)

\* TopicRepository.createNewVersion: outcome "null", an error thrown by
\* create, or "ok" with the new version as result.
Repo_createNewVersion(d, id, newContent, newName, uuid) ==
    LET found == Db_findById(d, id)
    IN IF found = <<>> THEN [outcome |-> "null", result |-> <<>>, data |-> d]
       ELSE LET newVersion == Topic_createNewVersion(found[1], newContent, newName, uuid)
                r == Repo_create(d, newVersion)
            IN IF r.err # "ok" THEN [outcome |-> r.err, result |-> <<>>, data |-> d]
               ELSE [outcome |-> "ok", result |-> <<newVersion>>, data |-> r.data]

\* BaseRepository.update
Repo_update(d, id, e) ==
    LET v == Topic_validate(e)
    IN IF v # "ok" THEN [outcome |-> v, result |-> <<>>, data |-> d]
       ELSE Db_update(d, id, e)

\* createNewVersion(id, newContent) of repositories/TopicRepository.ts, which
\* puts the new version in the place of the record through update.
TopicRepository_createNewVersion(d, id, newContent, uuid) ==
    LET found == Db_findById(d, id)
    IN IF found = <<>> THEN [outcome |-> "null", result |-> <<>>, data |-> d]
       ELSE Repo_update(d, id, Topic_createNewVersion(found[1], newContent, <<>>, uuid))

\* TopicRepository.createChildTopic
Repo_createChildTopic(d, parentId, name, content, uuid) ==
    LET found == Db_findById(d, parentId)
    IN IF found = <<>> THEN [outcome |-> "null", result |-> <<>>, data |-> d]
       ELSE LET childTopic == Topic_createChildTopic(found[1], name, content, uuid)
                r == Repo_create(d, childTopic)
            IN IF r.err # "ok" THEN [outcome |-> r.err, result |-> <<>>, data |-> d]
               ELSE [outcome |-> "ok", result |-> <<childTopic>>, data |-> r.data]

\* ------------------------------------------------------------ TopicService
\* Faulty variant: the parent is not looked up by the service; the
\* repository's own lookup answers null.
Svc_createTopic_NoParentLookup(d, name, content, parentTopicId, uuid) ==
    IF parentTopicId # Nil
    THEN Repo_createChildTopic(d, parentTopicId, name, content, uuid)
    ELSE LET topic == Topic(name, content, 1, Nil, Nil, Nil, Nil, Nil, uuid)
             r == Repo_create(d, topic)
         IN IF r.err # "ok" THEN [outcome |-> r.err, result |-> <<>>, data |-> d]
            ELSE [outcome |-> "ok", result |-> <<topic>>, data |-> r.data]

Svc_createTopic(d, name, content, parentTopicId, uuid) ==
    IF parentTopicId # Nil
    THEN IF Db_findById(d, parentTopicId) = <<>>
         THEN [outcome |-> "ParentNotFound", result |-> <<>>, data |-> d]
         ELSE Repo_createChildTopic(d, parentTopicId, name, content, uuid)
    ELSE LET topic == Topic(name, content, 1, Nil, Nil, Nil, Nil, Nil, uuid)
             r == Repo_create(d, topic)
         IN IF r.err # "ok" THEN [outcome |-> r.err, result |-> <<>>, data |-> d]
            ELSE [outcome |-> "ok", result |-> <<topic>>, data |-> r.data]

Svc_updateTopic(d, id, content, name, uuid) ==
    Repo_createNewVersion(d, id, content, name, uuid)

\* Faulty variant: the child check is left out.
Svc_deleteTopic_NoChildCheck(d, id) ==
    LET r == Db_delete(d, id)
    IN [outcome |-> IF r.ok THEN "true" ELSE "false", data |-> r.data]

Svc_deleteTopic(d, id) ==
    IF Len(Repo_findByParentId(d, id)) > 0
    THEN [outcome |-> "HasChildren", data |-> d]
    ELSE LET r == Db_delete(d, id)
         IN [outcome |-> IF r.ok THEN "true" ELSE "false", data |-> r.data]

\* ---------------------------------------------------- version queries
\* Array.prototype.sort with (a, b) => b.version - a.version: a stable
\* insertion into descending order.
RECURSIVE InsertDesc(_, _)
InsertDesc(sorted, t) ==
    IF sorted = <<>> THEN <<t>>
    ELSE IF Head(sorted).version >= t.version
         THEN <<Head(sorted)>> \o InsertDesc(Tail(sorted), t)
         ELSE <<t>> \o sorted

RECURSIVE SortDesc(_)
SortDesc(s) == IF s = <<>> THEN <<>>
               ELSE InsertDesc(SortDesc(SubSeq(s, 1, Len(s) - 1)), s[Len(s)])

\* TopicRepository.findVersion: versions.find(...) || null
Repo_findVersion(d, rootTopicId, version) ==
    LET m == SelectSeq(Repo_findAllVersions(d, rootTopicId), LAMBDA t : t.version = version)
    IN IF m = <<>> THEN <<>> ELSE <<m[1]>>

\* TopicRepository.findLatestVersion
Repo_findLatestVersion(d, rootTopicId) ==
    LET versions == Repo_findAllVersions(d, rootTopicId)
    IN IF Len(versions) = 0 THEN <<>>
       ELSE <<SortDesc(versions)[1]>>

\* ----------------------------------------------------- descendants, tree
RECURSIVE Repo_findChildrenRecursive(_, _, _)
RECURSIVE FindChildrenLoop(_, _, _, _)
\* The for loop of findChildrenRecursive over children[i..].
FindChildrenLoop(d, children, i, result) ==
    IF i > Len(children) THEN result
    ELSE FindChildrenLoop(d, children, i + 1,
             Repo_findChildrenRecursive(d, children[i].id, Append(result, children[i])))

Repo_findChildrenRecursive(d, topicId, result) ==
    FindChildrenLoop(d, Repo_findByParentId(d, topicId), 1, result)

\* Faulty variant: only the direct children are collected.
Repo_findAllChildrenRecursive_DirectOnly(d, topicId) == Repo_findByParentId(d, topicId)

Repo_findAllChildrenRecursive(d, topicId) == Repo_findChildrenRecursive(d, topicId, <<>>)

\* The linking loop of TopicService.getTopicTree. Tree nodes are numbered:
\* node 0 is the root's, node k is the one made for children[k]. kids[n] is
\* node n's children array, topicMap maps a topic id to its node.
RECURSIVE LinkChildren(_, _, _, _)
LinkChildren(children, k, kids, topicMap) ==
    IF k > Len(children) THEN kids
    ELSE LET child == children[k]
         IN IF child.parentTopicId = Nil
            THEN LinkChildren(children, k + 1, kids, topicMap)
            ELSE LET p == child.parentTopicId
                     kids2 == IF p \in DOMAIN topicMap
                              THEN [kids EXCEPT ![topicMap[p]] = Append(@, k)]
                              ELSE kids
                     map2 == [x \in (DOMAIN topicMap) \cup {child.id} |->
                                 IF x = child.id THEN k ELSE topicMap[x]]
                 IN LinkChildren(children, k + 1, kids2, map2)

\* The nested TopicTree value reachable from node n.
RECURSIVE Unfold(_, _, _, _)
Unfold(topic, children, kids, n) ==
    [topic |-> IF n = 0 THEN topic ELSE children[n],
     children |-> [j \in 1..Len(kids[n]) |-> Unfold(topic, children, kids, kids[n][j])]]

\* TopicService.getTopicTree
Svc_getTopicTree(d, topicId) ==
    LET found == Db_findById(d, topicId)
    IN IF found = <<>> THEN [outcome |-> "null", result |-> <<>>]
       ELSE LET topic == found[1]
                children == Repo_findAllChildrenRecursive(d, topicId)
                kids == LinkChildren(children, 1, [n \in 0..Len(children) |-> <<>>],
                                     [x \in {topic.id} |-> 0])
            IN [outcome |-> "ok", result |-> <<Unfold(topic, children, kids, 0)>>]

\* --------------------------------------------------------------- findPath
\* graph: topic id -> neighbour array; an id without entry has no array
\* (graph.get(id) || [] reads it as empty).
GraphPush(graph, key, v) ==
    [x \in (DOMAIN graph) \cup {key} |->
        IF x = key THEN (IF key \in DOMAIN graph THEN Append(graph[key], v) ELSE <<v>>)
        ELSE graph[x]]

GraphEnsure(graph, key) ==
    IF key \in DOMAIN graph THEN graph
    ELSE [x \in (DOMAIN graph) \cup {key} |-> IF x = key THEN <<>> ELSE graph[x]]

\* Faulty variant: only the parent-to-child edge is recorded.
GraphAddTopic_Directed(graph, topic) ==
    LET g1 == GraphEnsure(graph, topic.id)
    IN IF topic.parentTopicId # Nil
       THEN GraphPush(GraphEnsure(g1, topic.parentTopicId), topic.parentTopicId, topic.id)
       ELSE g1

\* One iteration of the graph-building loop of findPath.
GraphAddTopic(graph, topic) ==
    LET g1 == GraphEnsure(graph, topic.id)
    IN IF topic.parentTopicId # Nil
       THEN LET g2 == GraphPush(GraphEnsure(g1, topic.parentTopicId),
                                topic.parentTopicId, topic.id)
            IN GraphPush(g2, topic.id, topic.parentTopicId)
       ELSE g1

RECURSIVE BuildGraph(_, _, _)
BuildGraph(allTopics, i, graph) ==
    IF i > Len(allTopics) THEN graph
    ELSE BuildGraph(allTopics, i + 1, GraphAddTopic(graph, allTopics[i]))

GraphGet(graph, id) == IF id \in DOMAIN graph THEN graph[id] ELSE <<>>

\* TopicRepository.reconstructPath; visited maps a node to its predecessor
\* (Nil for the start node).
RECURSIVE ReconstructLoop(_, _, _, _)
ReconstructLoop(visited, startId, current, path) ==
    IF current = startId THEN path
    ELSE LET predecessor == IF current \in DOMAIN visited THEN visited[current] ELSE Nil
         IN IF predecessor = Nil THEN path
            ELSE ReconstructLoop(visited, startId, predecessor, <<predecessor>> \o path)

Repo_reconstructPath(visited, startId, endId) ==
    ReconstructLoop(visited, startId, endId, <<endId>>)

\* The neighbour loop of findShortestPath.
RECURSIVE VisitNeighbors(_, _, _, _, _)
VisitNeighbors(neighbors, i, currentId, queue, visited) ==
    IF i > Len(neighbors) THEN [queue |-> queue, visited |-> visited]
    ELSE LET neighborId == neighbors[i]
         IN IF neighborId \notin DOMAIN visited
            THEN VisitNeighbors(neighbors, i + 1, currentId, Append(queue, neighborId),
                     [x \in (DOMAIN visited) \cup {neighborId} |->
                         IF x = neighborId THEN currentId ELSE visited[x]])
            ELSE VisitNeighbors(neighbors, i + 1, currentId, queue, visited)

\* The while loop of findShortestPath; <<>> is null (a path is never empty).
RECURSIVE BfsLoop(_, _, _, _, _)
BfsLoop(graph, startId, endId, queue, visited) ==
    IF Len(queue) = 0 THEN <<>>
    ELSE LET currentId == Head(queue)
         IN IF currentId = endId THEN Repo_reconstructPath(visited, startId, endId)
            ELSE LET r == VisitNeighbors(GraphGet(graph, currentId), 1, currentId,
                                         Tail(queue), visited)
                 IN BfsLoop(graph, startId, endId, r.queue, r.visited)

Repo_findShortestPath(graph, startId, endId) ==
    BfsLoop(graph, startId, endId, <<startId>>, [x \in {startId} |-> Nil])

\* The conversion of the id path to topics: ids without a record are skipped.
RECURSIVE PathToTopics(_, _)
PathToTopics(allTopics, path) ==
    IF path = <<>> THEN <<>>
    ELSE Db_findById(allTopics, Head(path)) \o PathToTopics(allTopics, Tail(path))

\* Faulty variant: the search runs without checking that both ends are stored.
Repo_findPath_NoExistenceCheck(d, startTopicId, endTopicId) ==
    LET path == Repo_findShortestPath(BuildGraph(d, 1, <<>>), startTopicId, endTopicId)
    IN IF path = <<>> THEN [outcome |-> "null", result |-> <<>>]
       ELSE [outcome |-> "ok", result |-> PathToTopics(d, path)]

\* TopicRepository.findPath (TopicService.findPath delegates to it).
Repo_findPath(d, startTopicId, endTopicId) ==
    IF Db_findById(d, startTopicId) = <<>> \/ Db_findById(d, endTopicId) = <<>>
    THEN [outcome |-> "null", result |-> <<>>]
    ELSE LET allTopics == Db_findAll(d)
             path == Repo_findShortestPath(BuildGraph(allTopics, 1, <<>>),
                                           startTopicId, endTopicId)
         IN IF path = <<>> THEN [outcome |-> "null", result |-> <<>>]
            ELSE [outcome |-> "ok", result |-> PathToTopics(allTopics, path)]

\* ------------------------------------------------------- access strategies
\* TopicAccessStrategyFactory.getStrategy: the strategy keyed by the role,
\* "None" when the lookup finds nothing (the factory throws).
Factory_getStrategy_Fallback(role) ==
    IF role = ADMIN THEN "AdminStrategy"
    ELSE IF role = EDITOR THEN "EditorStrategy"
    ELSE "ViewerStrategy"

Factory_getStrategy(role) ==
    IF role = ADMIN THEN "AdminStrategy"
    ELSE IF role = EDITOR THEN "EditorStrategy"
    ELSE IF role = VIEWER THEN "ViewerStrategy"
    ELSE "None"

Strategies == {"AdminStrategy", "EditorStrategy", "ViewerStrategy"}

\* The decisions ignore the topic (and parent id) argument: each compares the
\* role of the user with the role of the class.
Admin_canCreateTopic(role) == role = ADMIN

Admin_canReadTopic(role) == role = ADMIN

Admin_canUpdateTopic(role) == role = ADMIN

Admin_canDeleteTopic(role) == role = ADMIN

Editor_canCreateTopic(role) == role = EDITOR

Editor_canReadTopic(role) == role = EDITOR

Editor_canUpdateTopic(role) == role = EDITOR

\* Faulty variant: the contributor may delete.
Editor_canDeleteTopic_Own(role) == role = EDITOR

Editor_canDeleteTopic(role) == FALSE

\* Faulty variant: the read-only user may create.
Viewer_canCreateTopic_Own(role) == role = VIEWER

Viewer_canCreateTopic(role) == FALSE

\* Faulty variant: the read-only strategy lets nobody read.
Viewer_canReadTopic_Nobody(role) == FALSE

Viewer_canReadTopic(role) == role = VIEWER

Viewer_canUpdateTopic(role) == FALSE

Viewer_canDeleteTopic(role) == FALSE

\* A strategy double as the facade's tests build it: jest.fn() members, of
\* which canReadTopic is given answers (here: true for the topics whose id is
\* in m.canReadTopic) and the others answer undefined, which the facade
\* reads as a denial.
Mock_canCreateTopic(m) == FALSE

Mock_canReadTopic(m, topic) == topic.id \in m.canReadTopic

Mock_canUpdateTopic(m) == FALSE

Mock_canDeleteTopic(m) == FALSE

\* The doubles: all topics readable but one, or none readable.
MockInputs ==
    {<<[canReadTopic |-> Ids \ {h}]>> : h \in Ids} \cup {<<[canReadTopic |-> {}]>>}

\* mockStrategy is <<>> when the factory is the real one and <<m>> when the
\* factory is mocked to return the double m.
MockStrategyInputs == {<<>>} \cup MockInputs

\* strategy.canXTopic(user, ...), dispatched on the strategy object.
Strategy_canCreateTopic(strategy, role, mockStrategy) ==
    IF strategy = "AdminStrategy" THEN Admin_canCreateTopic(role)
    ELSE IF strategy = "EditorStrategy" THEN Editor_canCreateTopic(role)
    ELSE IF strategy = "ViewerStrategy" THEN Viewer_canCreateTopic(role)
    ELSE Mock_canCreateTopic(mockStrategy[1])

Strategy_canReadTopic(strategy, role, topic, mockStrategy) ==
    IF strategy = "AdminStrategy" THEN Admin_canReadTopic(role)
    ELSE IF strategy = "EditorStrategy" THEN Editor_canReadTopic(role)
    ELSE IF strategy = "ViewerStrategy" THEN Viewer_canReadTopic(role)
    ELSE Mock_canReadTopic(mockStrategy[1], topic)

Strategy_canUpdateTopic(strategy, role, mockStrategy) ==
    IF strategy = "AdminStrategy" THEN Admin_canUpdateTopic(role)
    ELSE IF strategy = "EditorStrategy" THEN Editor_canUpdateTopic(role)
    ELSE IF strategy = "ViewerStrategy" THEN Viewer_canUpdateTopic(role)
    ELSE Mock_canUpdateTopic(mockStrategy[1])

Strategy_canDeleteTopic(strategy, role, mockStrategy) ==
    IF strategy = "AdminStrategy" THEN Admin_canDeleteTopic(role)
    ELSE IF strategy = "EditorStrategy" THEN Editor_canDeleteTopic(role)
    ELSE IF strategy = "ViewerStrategy" THEN Viewer_canDeleteTopic(role)
    ELSE Mock_canDeleteTopic(mockStrategy[1])

\* ------------------------------------------------------------------ facade
\* Faulty variant: a role outside the enum is served the read-only strategy.
Secure_getStrategy_Default(role, mockStrategy) ==
    IF mockStrategy = <<>> THEN Factory_getStrategy_Fallback(role) ELSE "MockStrategy"

\* TopicAccessStrategyFactory.getStrategy(user) as the facade reaches it: the
\* factory itself, or the mock of it that returns the double.
Secure_getStrategy(role, mockStrategy) ==
    IF mockStrategy = <<>> THEN Factory_getStrategy(role) ELSE "MockStrategy"

\* Every facade operation yields its outcome, its result, the store it
\* leaves and calls: the methods of the engine, of the factory and of the
\* strategy it invoked, in order.

\* Faulty variant: the engine is asked to create before the permission is
\* looked at.
Secure_createTopic_CheckAfter(d, name, content, role, mockStrategy, parentTopicId, uuid) ==
    LET r == Svc_createTopic(d, name, content, parentTopicId, uuid)
        strategy == Secure_getStrategy(role, mockStrategy)
    IN IF strategy = "None"
       THEN [outcome |-> "NoStrategy", result |-> <<>>, data |-> r.data,
             calls |-> <<"createTopic", "getStrategy">>]
       ELSE IF ~Strategy_canCreateTopic(strategy, role, mockStrategy)
            THEN [outcome |-> "PermissionDenied", result |-> <<>>, data |-> r.data,
                  calls |-> <<"createTopic", "getStrategy", "canCreateTopic">>]
            ELSE [outcome |-> r.outcome, result |-> r.result, data |-> r.data,
                  calls |-> <<"createTopic", "getStrategy", "canCreateTopic">>]

\* SecureTopicService.createTopic
Secure_createTopic(d, name, content, role, mockStrategy, parentTopicId, uuid) ==
    LET strategy == Secure_getStrategy(role, mockStrategy)
    IN IF strategy = "None"
       THEN [outcome |-> "NoStrategy", result |-> <<>>, data |-> d,
             calls |-> <<"getStrategy">>]
       ELSE IF ~Strategy_canCreateTopic(strategy, role, mockStrategy)
            THEN [outcome |-> "PermissionDenied", result |-> <<>>, data |-> d,
                  calls |-> <<"getStrategy", "canCreateTopic">>]
            ELSE LET r == Svc_createTopic(d, name, content, parentTopicId, uuid)
                 IN [outcome |-> r.outcome, result |-> r.result, data |-> r.data,
                     calls |-> <<"getStrategy", "canCreateTopic", "createTopic">>]

\* Faulty variant: the permission is looked up before the target is fetched.
Secure_updateTopic_CheckFirst(d, id, content, role, mockStrategy, name, uuid) ==
    LET strategy == Secure_getStrategy(role, mockStrategy)
    IN IF strategy = "None"
       THEN [outcome |-> "NoStrategy", result |-> <<>>, data |-> d,
             calls |-> <<"getStrategy">>]
       ELSE IF ~Strategy_canUpdateTopic(strategy, role, mockStrategy)
            THEN [outcome |-> "PermissionDenied", result |-> <<>>, data |-> d,
                  calls |-> <<"getStrategy", "canUpdateTopic">>]
            ELSE LET r == Svc_updateTopic(d, id, content, name, uuid)
                 IN [outcome |-> r.outcome, result |-> r.result, data |-> r.data,
                     calls |-> <<"getStrategy", "canUpdateTopic", "updateTopic">>]

\* SecureTopicService.updateTopic
Secure_updateTopic(d, id, content, role, mockStrategy, name, uuid) ==
    IF Db_findById(d, id) = <<>>
    THEN [outcome |-> "null", result |-> <<>>, data |-> d, calls |-> <<"getTopic">>]
    ELSE LET strategy == Secure_getStrategy(role, mockStrategy)
         IN IF strategy = "None"
            THEN [outcome |-> "NoStrategy", result |-> <<>>, data |-> d,
                  calls |-> <<"getTopic", "getStrategy">>]
            ELSE IF ~Strategy_canUpdateTopic(strategy, role, mockStrategy)
                 THEN [outcome |-> "PermissionDenied", result |-> <<>>, data |-> d,
                       calls |-> <<"getTopic", "getStrategy", "canUpdateTopic">>]
                 ELSE LET r == Svc_updateTopic(d, id, content, name, uuid)
                      IN [outcome |-> r.outcome, result |-> r.result, data |-> r.data,
                          calls |-> <<"getTopic", "getStrategy", "canUpdateTopic",
                                      "updateTopic">>]

\* Faulty variant: the facade turns an engine error into a false result.
Secure_deleteTopic_Swallow(d, id, role, mockStrategy) ==
    IF Db_findById(d, id) = <<>>
    THEN [outcome |-> "false", data |-> d, calls |-> <<"getTopic">>]
    ELSE LET strategy == Secure_getStrategy(role, mockStrategy)
         IN IF strategy = "None"
            THEN [outcome |-> "NoStrategy", data |-> d,
                  calls |-> <<"getTopic", "getStrategy">>]
            ELSE IF ~Strategy_canDeleteTopic(strategy, role, mockStrategy)
                 THEN [outcome |-> "PermissionDenied", data |-> d,
                       calls |-> <<"getTopic", "getStrategy", "canDeleteTopic">>]
                 ELSE LET r == Svc_deleteTopic(d, id)
                      IN [outcome |-> IF r.outcome = "HasChildren"
                                      THEN "false" ELSE r.outcome,
                          data |-> r.data,
                          calls |-> <<"getTopic", "getStrategy", "canDeleteTopic",
                                      "deleteTopic">>]

\* SecureTopicService.deleteTopic
Secure_deleteTopic(d, id, role, mockStrategy) ==
    IF Db_findById(d, id) = <<>>
    THEN [outcome |-> "false", data |-> d, calls |-> <<"getTopic">>]
    ELSE LET strategy == Secure_getStrategy(role, mockStrategy)
         IN IF strategy = "None"
            THEN [outcome |-> "NoStrategy", data |-> d,
                  calls |-> <<"getTopic", "getStrategy">>]
            ELSE IF ~Strategy_canDeleteTopic(strategy, role, mockStrategy)
                 THEN [outcome |-> "PermissionDenied", data |-> d,
                       calls |-> <<"getTopic", "getStrategy", "canDeleteTopic">>]
                 ELSE LET r == Svc_deleteTopic(d, id)
                      IN [outcome |-> r.outcome, data |-> r.data,
                          calls |-> <<"getTopic", "getStrategy", "canDeleteTopic",
                                      "deleteTopic">>]

\* n canReadTopic calls, one for each item a filter looks at.
ReadChecks(n) == [i \in 1..n |-> "canReadTopic"]

\* SecureTopicService.getTopic
Secure_getTopic(d, id, role, mockStrategy) ==
    LET topic == Db_findById(d, id)
    IN IF topic = <<>>
       THEN [outcome |-> "null", result |-> <<>>, calls |-> <<"getTopic">>]
       ELSE LET strategy == Secure_getStrategy(role, mockStrategy)
            IN IF strategy = "None"
               THEN [outcome |-> "NoStrategy", result |-> <<>>,
                     calls |-> <<"getTopic", "getStrategy">>]
               ELSE IF ~Strategy_canReadTopic(strategy, role, topic[1], mockStrategy)
                    THEN [outcome |-> "PermissionDenied", result |-> <<>>,
                          calls |-> <<"getTopic", "getStrategy", "canReadTopic">>]
                    ELSE [outcome |-> "ok", result |-> topic,
                          calls |-> <<"getTopic", "getStrategy", "canReadTopic">>]

\* Faulty variant: a version the user may not read is reported as absent.
Secure_getTopicVersion_Hide(d, rootTopicId, version, role, mockStrategy) ==
    LET topic == Repo_findVersion(d, rootTopicId, version)
    IN IF topic = <<>>
       THEN [outcome |-> "null", result |-> <<>>, calls |-> <<"getTopicVersion">>]
       ELSE LET strategy == Secure_getStrategy(role, mockStrategy)
            IN IF strategy = "None"
               THEN [outcome |-> "NoStrategy", result |-> <<>>,
                     calls |-> <<"getTopicVersion", "getStrategy">>]
               ELSE IF ~Strategy_canReadTopic(strategy, role, topic[1], mockStrategy)
                    THEN [outcome |-> "null", result |-> <<>>,
                          calls |-> <<"getTopicVersion", "getStrategy", "canReadTopic">>]
                    ELSE [outcome |-> "ok", result |-> topic,
                          calls |-> <<"getTopicVersion", "getStrategy", "canReadTopic">>]

\* SecureTopicService.getTopicVersion
Secure_getTopicVersion(d, rootTopicId, version, role, mockStrategy) ==
    LET topic == Repo_findVersion(d, rootTopicId, version)
    IN IF topic = <<>>
       THEN [outcome |-> "null", result |-> <<>>, calls |-> <<"getTopicVersion">>]
       ELSE LET strategy == Secure_getStrategy(role, mockStrategy)
            IN IF strategy = "None"
               THEN [outcome |-> "NoStrategy", result |-> <<>>,
                     calls |-> <<"getTopicVersion", "getStrategy">>]
               ELSE IF ~Strategy_canReadTopic(strategy, role, topic[1], mockStrategy)
                    THEN [outcome |-> "PermissionDenied", result |-> <<>>,
                          calls |-> <<"getTopicVersion", "getStrategy", "canReadTopic">>]
                    ELSE [outcome |-> "ok", result |-> topic,
                          calls |-> <<"getTopicVersion", "getStrategy", "canReadTopic">>]

\* SecureTopicService.getLatestTopicVersion
Secure_getLatestTopicVersion(d, rootTopicId, role, mockStrategy) ==
    LET topic == Repo_findLatestVersion(d, rootTopicId)
    IN IF topic = <<>>
       THEN [outcome |-> "null", result |-> <<>>, calls |-> <<"getLatestTopicVersion">>]
       ELSE LET strategy == Secure_getStrategy(role, mockStrategy)
            IN IF strategy = "None"
               THEN [outcome |-> "NoStrategy", result |-> <<>>,
                     calls |-> <<"getLatestTopicVersion", "getStrategy">>]
               ELSE IF ~Strategy_canReadTopic(strategy, role, topic[1], mockStrategy)
                    THEN [outcome |-> "PermissionDenied", result |-> <<>>,
                          calls |-> <<"getLatestTopicVersion", "getStrategy",
                                      "canReadTopic">>]
                    ELSE [outcome |-> "ok", result |-> topic,
                          calls |-> <<"getLatestTopicVersion", "getStrategy",
                                      "canReadTopic">>]

\* topics.filter(topic => strategy.canReadTopic(user, topic))
Secure_filter(topics, strategy, role, mockStrategy) ==
    SelectSeq(topics, LAMBDA topic : Strategy_canReadTopic(strategy, role, topic, mockStrategy))

\* Faulty variant: the list ends at the first topic the user may not read.
Secure_getAllTopics_Prefix(d, role, mockStrategy) ==
    LET topics == Db_findAll(d)
        strategy == Secure_getStrategy(role, mockStrategy)
        denied == {i \in 1..Len(topics) :
                       ~Strategy_canReadTopic(strategy, role, topics[i], mockStrategy)}
    IN IF strategy = "None"
       THEN [outcome |-> "NoStrategy", result |-> <<>>,
             calls |-> <<"getAllTopics", "getStrategy">>]
       ELSE [outcome |-> "ok",
             result |-> IF denied = {} THEN topics
                        ELSE SubSeq(topics, 1, (CHOOSE i \in denied :
                                                    \A j \in denied : i <= j) - 1),
             calls |-> <<"getAllTopics", "getStrategy">> \o ReadChecks(Len(topics))]

\* SecureTopicService.getAllTopics
Secure_getAllTopics(d, role, mockStrategy) ==
    LET topics == Db_findAll(d)
        strategy == Secure_getStrategy(role, mockStrategy)
    IN IF strategy = "None"
       THEN [outcome |-> "NoStrategy", result |-> <<>>,
             calls |-> <<"getAllTopics", "getStrategy">>]
       ELSE [outcome |-> "ok",
             result |-> Secure_filter(topics, strategy, role, mockStrategy),
             calls |-> <<"getAllTopics", "getStrategy">> \o ReadChecks(Len(topics))]

\* SecureTopicService.getRootTopics
Secure_getRootTopics(d, role, mockStrategy) ==
    LET topics == Repo_findRootTopics(d)
        strategy == Secure_getStrategy(role, mockStrategy)
    IN IF strategy = "None"
       THEN [outcome |-> "NoStrategy", result |-> <<>>,
             calls |-> <<"getRootTopics", "getStrategy">>]
       ELSE [outcome |-> "ok",
             result |-> Secure_filter(topics, strategy, role, mockStrategy),
             calls |-> <<"getRootTopics", "getStrategy">> \o ReadChecks(Len(topics))]

\* SecureTopicService.getAllTopicVersions
Secure_getAllTopicVersions(d, rootTopicId, role, mockStrategy) ==
    LET topics == Repo_findAllVersions(d, rootTopicId)
        strategy == Secure_getStrategy(role, mockStrategy)
    IN IF strategy = "None"
       THEN [outcome |-> "NoStrategy", result |-> <<>>,
             calls |-> <<"getAllTopicVersions", "getStrategy">>]
       ELSE [outcome |-> "ok",
             result |-> Secure_filter(topics, strategy, role, mockStrategy),
             calls |-> <<"getAllTopicVersions", "getStrategy">>
                           \o ReadChecks(Len(topics))]

\* Faulty variant: the children are fetched and filtered without a look at
\* the parent.
Secure_getChildTopics_Unchecked(d, parentId, role, mockStrategy) ==
    LET topics == Repo_findByParentId(d, parentId)
        strategy == Secure_getStrategy(role, mockStrategy)
    IN IF strategy = "None"
       THEN [outcome |-> "NoStrategy", result |-> <<>>,
             calls |-> <<"getChildTopics", "getStrategy">>]
       ELSE [outcome |-> "ok",
             result |-> Secure_filter(topics, strategy, role, mockStrategy),
             calls |-> <<"getChildTopics", "getStrategy">> \o ReadChecks(Len(topics))]

\* SecureTopicService.getChildTopics
Secure_getChildTopics(d, parentId, role, mockStrategy) ==
    LET parentTopic == Db_findById(d, parentId)
    IN IF parentTopic = <<>>
       THEN [outcome |-> "ParentNotFound", result |-> <<>>, calls |-> <<"getTopic">>]
       ELSE LET strategy == Secure_getStrategy(role, mockStrategy)
            IN IF strategy = "None"
               THEN [outcome |-> "NoStrategy", result |-> <<>>,
                     calls |-> <<"getTopic", "getStrategy">>]
               ELSE IF ~Strategy_canReadTopic(strategy, role, parentTopic[1], mockStrategy)
                    THEN [outcome |-> "PermissionDenied", result |-> <<>>,
                          calls |-> <<"getTopic", "getStrategy", "canReadTopic">>]
                    ELSE LET topics == Repo_findByParentId(d, parentId)
                         IN [outcome |-> "ok",
                             result |-> Secure_filter(topics, strategy, role,
                                                      mockStrategy),
                             calls |-> <<"getTopic", "getStrategy", "canReadTopic",
                                         "getChildTopics">>
                                           \o ReadChecks(Len(topics))]

\* Faulty variant: the children of the root are filtered, their own
\* subtrees are kept whole.
Secure_filterTopicTree_Shallow(tree, role, mockStrategy, strategy) ==
    [topic |-> tree.topic,
     children |-> SelectSeq(tree.children,
                      LAMBDA child : Strategy_canReadTopic(strategy, role, child.topic,
                                                           mockStrategy))]

\* SecureTopicService.filterTopicTree
RECURSIVE Secure_filterTopicTree(_, _, _, _)
Secure_filterTopicTree(tree, role, mockStrategy, strategy) ==
    LET filtered == SelectSeq(tree.children,
                        LAMBDA child : Strategy_canReadTopic(strategy, role, child.topic,
                                                             mockStrategy))
    IN [topic |-> tree.topic,
        children |-> [j \in 1..Len(filtered) |->
                         Secure_filterTopicTree(filtered[j], role, mockStrategy, strategy)]]

\* The canReadTopic calls filterTopicTree makes: one for each child of each
\* node it keeps.
RECURSIVE FilterChecks(_, _, _, _)
RECURSIVE FilterChecksAll(_, _, _, _, _)
FilterChecksAll(trees, i, role, mockStrategy, strategy) ==
    IF i > Len(trees) THEN 0
    ELSE (IF Strategy_canReadTopic(strategy, role, trees[i].topic, mockStrategy)
          THEN FilterChecks(trees[i], role, mockStrategy, strategy) ELSE 0)
         + FilterChecksAll(trees, i + 1, role, mockStrategy, strategy)

FilterChecks(tree, role, mockStrategy, strategy) ==
    Len(tree.children) + FilterChecksAll(tree.children, 1, role, mockStrategy, strategy)

\* SecureTopicService.getTopicTree
Secure_getTopicTree(d, topicId, role, mockStrategy) ==
    LET topic == Db_findById(d, topicId)
    IN IF topic = <<>>
       THEN [outcome |-> "null", result |-> <<>>, calls |-> <<"getTopic">>]
       ELSE LET strategy == Secure_getStrategy(role, mockStrategy)
            IN IF strategy = "None"
               THEN [outcome |-> "NoStrategy", result |-> <<>>,
                     calls |-> <<"getTopic", "getStrategy">>]
               ELSE IF ~Strategy_canReadTopic(strategy, role, topic[1], mockStrategy)
                    THEN [outcome |-> "PermissionDenied", result |-> <<>>,
                          calls |-> <<"getTopic", "getStrategy", "canReadTopic">>]
                    ELSE LET tree == Svc_getTopicTree(d, topicId)
                         IN IF tree.outcome = "null"
                            THEN [outcome |-> "null", result |-> <<>>,
                                  calls |-> <<"getTopic", "getStrategy", "canReadTopic",
                                              "getTopicTree">>]
                            ELSE [outcome |-> "ok",
                                  result |-> <<Secure_filterTopicTree(tree.result[1], role,
                                                   mockStrategy, strategy)>>,
                                  calls |-> <<"getTopic", "getStrategy", "canReadTopic",
                                              "getTopicTree">>
                                            \o ReadChecks(FilterChecks(tree.result[1], role,
                                                              mockStrategy, strategy))]

\* The engine's getTopic for both ends, the factory and the reads of the two
\* ends: !canReadTopic(start) || !canReadTopic(end) asks about the end only
\* when the start is readable.
FindPathEndChecks(startReadable) ==
    <<"getTopic", "getTopic", "getStrategy", "canReadTopic">>
        \o (IF startReadable THEN <<"canReadTopic">> ELSE <<>>)

\* SecureTopicService.findPath in the earlier form kept in the same file:
\* the topics of the path the user may not read are filtered out.
Secure_findPath_Filtering(d, startTopicId, endTopicId, role, mockStrategy) ==
    LET startTopic == Db_findById(d, startTopicId)
        endTopic == Db_findById(d, endTopicId)
    IN IF startTopic = <<>> \/ endTopic = <<>>
       THEN [outcome |-> "null", result |-> <<>>, calls |-> <<"getTopic", "getTopic">>]
       ELSE LET strategy == Secure_getStrategy(role, mockStrategy)
            IN IF strategy = "None"
               THEN [outcome |-> "NoStrategy", result |-> <<>>,
                     calls |-> <<"getTopic", "getTopic", "getStrategy">>]
               ELSE LET startReadable == Strategy_canReadTopic(strategy, role,
                                             startTopic[1], mockStrategy)
                        endReadable == Strategy_canReadTopic(strategy, role,
                                           endTopic[1], mockStrategy)
                    IN IF ~startReadable \/ ~endReadable
                       THEN [outcome |-> "PermissionDenied", result |-> <<>>,
                             calls |-> FindPathEndChecks(startReadable)]
                       ELSE LET path == Repo_findPath(d, startTopicId, endTopicId)
                            IN IF path.outcome = "null"
                               THEN [outcome |-> "null", result |-> <<>>,
                                     calls |-> FindPathEndChecks(startReadable)
                                                   \o <<"findPath">>]
                               ELSE [outcome |-> "ok",
                                     result |-> Secure_filter(path.result, strategy,
                                                              role, mockStrategy),
                                     calls |-> FindPathEndChecks(startReadable)
                                                   \o <<"findPath">>
                                                   \o ReadChecks(Len(path.result))]

\* SecureTopicService.findPath: the loop over the path throws at the first
\* topic the user may not read.
Secure_findPath(d, startTopicId, endTopicId, role, mockStrategy) ==
    LET startTopic == Db_findById(d, startTopicId)
        endTopic == Db_findById(d, endTopicId)
    IN IF startTopic = <<>> \/ endTopic = <<>>
       THEN [outcome |-> "null", result |-> <<>>, calls |-> <<"getTopic", "getTopic">>]
       ELSE LET strategy == Secure_getStrategy(role, mockStrategy)
            IN IF strategy = "None"
               THEN [outcome |-> "NoStrategy", result |-> <<>>,
                     calls |-> <<"getTopic", "getTopic", "getStrategy">>]
               ELSE LET startReadable == Strategy_canReadTopic(strategy, role,
                                             startTopic[1], mockStrategy)
                        endReadable == Strategy_canReadTopic(strategy, role,
                                           endTopic[1], mockStrategy)
                    IN IF ~startReadable \/ ~endReadable
                       THEN [outcome |-> "PermissionDenied", result |-> <<>>,
                             calls |-> FindPathEndChecks(startReadable)]
                       ELSE LET path == Repo_findPath(d, startTopicId, endTopicId)
                                denied == {i \in 1..Len(path.result) :
                                               ~Strategy_canReadTopic(strategy, role,
                                                    path.result[i], mockStrategy)}
                            IN IF path.outcome = "null"
                               THEN [outcome |-> "null", result |-> <<>>,
                                     calls |-> FindPathEndChecks(startReadable)
                                                   \o <<"findPath">>]
                               ELSE IF denied # {}
                                    THEN [outcome |-> "PermissionDenied",
                                          result |-> <<>>,
                                          calls |-> FindPathEndChecks(startReadable)
                                              \o <<"findPath">>
                                              \o ReadChecks(CHOOSE i \in denied :
                                                     \A j \in denied : i <= j)]
                                    ELSE [outcome |-> "ok", result |-> path.result,
                                          calls |-> FindPathEndChecks(startReadable)
                                              \o <<"findPath">>
                                              \o ReadChecks(Len(path.result))]

\* ------------------------------------------------------------------ actions
\* last is the record of the latest call: its arguments, the store it found
\* (pre), its outcome ("ok", "null", "true", "false" or the error thrown) and
\* its result. createdUnder remembers, for each stored record made by
\* createTopic, the parent id the caller asked for.
\* A service over a database that has done its first initialize on a
\* directory without a file (the initialize itself is followed in SpecInit).
Init ==
    /\ data = <<>>
    /\ nextUuid = 1
    /\ createdUnder = <<>>
    /\ last = [op |-> "none"]
    /\ initialized = TRUE
    /\ file = << <<>> >>
    /\ inflight = <<>>
    /\ loads = 0
    /\ acked = {}

\* A call that runs to its return before the next one starts: every await
\* of it has resumed, saveToFile has written the map, nothing is in flight.
Sequential ==
    /\ file' = <<data'>>
    /\ acked' = {data'[i].id : i \in 1..Len(data')}
    /\ UNCHANGED <<initialized, inflight, loads>>

\* uuidv4 never repeats: an id is used up once a record carries it.
Advance(r) == nextUuid' = IF Db_has(r.data, nextUuid) THEN nextUuid + 1 ELSE nextUuid

\* The history kept for the records still stored.
Forget(d, cu) == [x \in {y \in DOMAIN cu : Db_has(d, y)} |-> cu[x]]

CreateTopic(name, content, parentTopicId) ==
    /\ nextUuid <= MaxUuid
    /\ LET r == Svc_createTopic(data, name, content, parentTopicId, nextUuid)
       IN /\ data' = r.data
          /\ Advance(r)
          /\ createdUnder' = IF r.outcome = "ok"
                             THEN [x \in (DOMAIN createdUnder) \cup {r.result[1].id} |->
                                      IF x = r.result[1].id THEN parentTopicId
                                      ELSE createdUnder[x]]
                             ELSE createdUnder
          /\ last' = [op |-> "createTopic", name |-> name, content |-> content,
                      parentTopicId |-> parentTopicId, pre |-> data,
                      outcome |-> r.outcome, result |-> r.result]
    /\ Sequential

UpdateTopic(id, content, name) ==
    /\ LET r == Svc_updateTopic(data, id, content, name, nextUuid)
       IN /\ data' = r.data
          /\ Advance(r)
          /\ UNCHANGED createdUnder
          /\ last' = [op |-> "updateTopic", id |-> id, content |-> content,
                      name |-> name, pre |-> data,
                      outcome |-> r.outcome, result |-> r.result]
    /\ Sequential

DeleteTopic(id) ==
    LET r == Svc_deleteTopic(data, id)
    IN /\ data' = r.data
       /\ UNCHANGED nextUuid
       /\ createdUnder' = Forget(r.data, createdUnder)
       /\ last' = [op |-> "deleteTopic", id |-> id, pre |-> data, outcome |-> r.outcome]
       /\ Sequential

SecureDeleteTopic(id, role, mockStrategy) ==
    LET r == Secure_deleteTopic(data, id, role, mockStrategy)
    IN /\ data' = r.data
       /\ UNCHANGED nextUuid
       /\ createdUnder' = Forget(r.data, createdUnder)
       /\ last' = [op |-> "secure.deleteTopic", id |-> id, role |-> role,
                   mockStrategy |-> mockStrategy, pre |-> data,
                   outcome |-> r.outcome, calls |-> r.calls]
       /\ Sequential

GetTopic(id) ==
    /\ UNCHANGED <<data, nextUuid, createdUnder>>
    /\ LET r == Db_findById(data, id)
       IN last' = [op |-> "getTopic", id |-> id,
                   outcome |-> IF r = <<>> THEN "null" ELSE "ok", result |-> r]
    /\ Sequential

GetAllTopicVersions(rootTopicId) ==
    /\ UNCHANGED <<data, nextUuid, createdUnder>>
    /\ last' = [op |-> "getAllTopicVersions", id |-> rootTopicId, outcome |-> "ok",
                result |-> Repo_findAllVersions(data, rootTopicId)]
    /\ Sequential

GetChildTopics(parentId) ==
    /\ UNCHANGED <<data, nextUuid, createdUnder>>
    /\ last' = [op |-> "getChildTopics", id |-> parentId, outcome |-> "ok",
                result |-> Repo_findByParentId(data, parentId)]
    /\ Sequential

GetTopicVersion(rootTopicId, version) ==
    /\ UNCHANGED <<data, nextUuid, createdUnder>>
    /\ LET r == Repo_findVersion(data, rootTopicId, version)
       IN last' = [op |-> "getTopicVersion", id |-> rootTopicId, version |-> version,
                   outcome |-> IF r = <<>> THEN "null" ELSE "ok", result |-> r]
    /\ Sequential

GetLatestTopicVersion(rootTopicId) ==
    /\ UNCHANGED <<data, nextUuid, createdUnder>>
    /\ LET r == Repo_findLatestVersion(data, rootTopicId)
       IN last' = [op |-> "getLatestTopicVersion", id |-> rootTopicId,
                   outcome |-> IF r = <<>> THEN "null" ELSE "ok", result |-> r]
    /\ Sequential

GetTopicTree(topicId) ==
    /\ UNCHANGED <<data, nextUuid, createdUnder>>
    /\ LET r == Svc_getTopicTree(data, topicId)
       IN last' = [op |-> "getTopicTree", id |-> topicId,
                   outcome |-> r.outcome, result |-> r.result]
    /\ Sequential

FindPath(startTopicId, endTopicId) ==
    /\ UNCHANGED <<data, nextUuid, createdUnder>>
    /\ LET r == Repo_findPath(data, startTopicId, endTopicId)
       IN last' = [op |-> "findPath", id |-> startTopicId, id2 |-> endTopicId,
                   outcome |-> r.outcome, result |-> r.result]
    /\ Sequential

Next ==
    \/ \E n \in NameInputs, c \in ContentInputs, p \in ParentInputs : CreateTopic(n, c, p)
    \/ \E i \in IdInputs, c \in NewContentInputs, n \in NewNameInputs : UpdateTopic(i, c, n)
    \/ \E i \in IdInputs : DeleteTopic(i)
    \/ \E i \in IdInputs, r \in RoleInputs : SecureDeleteTopic(i, r, <<>>)
    \/ \E i \in IdInputs : GetTopic(i)
    \/ \E i \in IdInputs : GetAllTopicVersions(i)
    \/ \E i \in IdInputs : GetChildTopics(i)
    \/ \E i \in IdInputs, v \in VersionInputs : GetTopicVersion(i, v)
    \/ \E i \in IdInputs : GetLatestTopicVersion(i)
    \/ \E i \in IdInputs : GetTopicTree(i)
    \/ \E i \in IdInputs, j \in IdInputs : FindPath(i, j)

Spec == Init /\ [][Next]_vars

\* ----------------------------------------------------------- facade calls
\* The callers of the facade: a user of each role with the real factory, and
\* a user with the factory mocked to return each double.
Principals ==
    {<<r, <<>>>> : r \in RoleInputs} \cup {<<VIEWER, m>> : m \in MockInputs}

\* The callers of the mutating operations: the doubles differ in what they
\* let a user read only, so one of them stands for all.
Writers ==
    {<<r, <<>>>> : r \in RoleInputs} \cup {<<VIEWER, <<[canReadTopic |-> {}]>>>>}

ActionInputs == {"create", "read", "update", "delete"}

\* A call is made on the store it finds, and its record replaces the one kept
\* in last: what can follow a state depends on the store alone. Runs are
\* continued from the calls that changed the store; these reach every store,
\* and every call on every store is observed.
StoreChanged ==
    \/ last.op = "none"
    \/ /\ last.op \in {"secure.createTopic", "secure.updateTopic", "secure.deleteTopic"}
       /\ last.pre # data

\* strategy.canXTopic(user) on a strategy object of one of the three classes;
\* the tests call the decisions without a topic.
StrategyDecision(strategy, action, role) ==
    /\ StoreChanged
    /\ UNCHANGED <<data, nextUuid, createdUnder>>
    /\ last' = [op |-> "strategy", strategy |-> strategy, action |-> action,
                role |-> role,
                result |-> CASE action = "create" ->
                                    Strategy_canCreateTopic(strategy, role, <<>>)
                             [] action = "read" ->
                                    Strategy_canReadTopic(strategy, role, [id |-> Nil], <<>>)
                             [] action = "update" ->
                                    Strategy_canUpdateTopic(strategy, role, <<>>)
                             [] action = "delete" ->
                                    Strategy_canDeleteTopic(strategy, role, <<>>)]
    /\ Sequential

\* TopicAccessStrategyFactory.getStrategy(user)
FactoryGetStrategy(role) ==
    /\ StoreChanged
    /\ UNCHANGED <<data, nextUuid, createdUnder>>
    /\ LET strategy == Factory_getStrategy(role)
       IN last' = [op |-> "getStrategy", role |-> role,
                   outcome |-> IF strategy = "None" THEN "NoStrategy" ELSE "ok",
                   result |-> strategy]
    /\ Sequential

SecureCreateTopic(name, content, role, mockStrategy, parentTopicId) ==
    /\ StoreChanged
    /\ nextUuid <= MaxUuid
    /\ LET r == Secure_createTopic(data, name, content, role, mockStrategy,
                                   parentTopicId, nextUuid)
       IN /\ data' = r.data
          /\ Advance(r)
          /\ createdUnder' = IF r.outcome = "ok"
                             THEN [x \in (DOMAIN createdUnder) \cup {r.result[1].id} |->
                                      IF x = r.result[1].id THEN parentTopicId
                                      ELSE createdUnder[x]]
                             ELSE createdUnder
          /\ last' = [op |-> "secure.createTopic", name |-> name, content |-> content,
                      role |-> role, mockStrategy |-> mockStrategy,
                      parentTopicId |-> parentTopicId, pre |-> data,
                      outcome |-> r.outcome, result |-> r.result, calls |-> r.calls]
    /\ Sequential

SecureUpdateTopic(id, content, role, mockStrategy, name) ==
    /\ StoreChanged
    /\ LET r == Secure_updateTopic(data, id, content, role, mockStrategy, name, nextUuid)
       IN /\ data' = r.data
          /\ Advance(r)
          /\ UNCHANGED createdUnder
          /\ last' = [op |-> "secure.updateTopic", id |-> id, content |-> content,
                      role |-> role, mockStrategy |-> mockStrategy, name |-> name,
                      pre |-> data,
                      outcome |-> r.outcome, result |-> r.result, calls |-> r.calls]
    /\ Sequential

SecureGetTopic(id, role, mockStrategy) ==
    /\ StoreChanged
    /\ UNCHANGED <<data, nextUuid, createdUnder>>
    /\ LET r == Secure_getTopic(data, id, role, mockStrategy)
       IN last' = [op |-> "secure.getTopic", id |-> id, role |-> role,
                   mockStrategy |-> mockStrategy,
                   outcome |-> r.outcome, result |-> r.result, calls |-> r.calls]
    /\ Sequential

SecureGetTopicVersion(rootTopicId, version, role, mockStrategy) ==
    /\ StoreChanged
    /\ UNCHANGED <<data, nextUuid, createdUnder>>
    /\ LET r == Secure_getTopicVersion(data, rootTopicId, version, role, mockStrategy)
       IN last' = [op |-> "secure.getTopicVersion", id |-> rootTopicId,
                   version |-> version, role |-> role, mockStrategy |-> mockStrategy,
                   outcome |-> r.outcome, result |-> r.result, calls |-> r.calls]
    /\ Sequential

SecureGetLatestTopicVersion(rootTopicId, role, mockStrategy) ==
    /\ StoreChanged
    /\ UNCHANGED <<data, nextUuid, createdUnder>>
    /\ LET r == Secure_getLatestTopicVersion(data, rootTopicId, role, mockStrategy)
       IN last' = [op |-> "secure.getLatestTopicVersion", id |-> rootTopicId,
                   role |-> role, mockStrategy |-> mockStrategy,
                   outcome |-> r.outcome, result |-> r.result, calls |-> r.calls]
    /\ Sequential

SecureGetAllTopics(role, mockStrategy) ==
    /\ StoreChanged
    /\ UNCHANGED <<data, nextUuid, createdUnder>>
    /\ LET r == Secure_getAllTopics(data, role, mockStrategy)
       IN last' = [op |-> "secure.getAllTopics", role |-> role,
                   mockStrategy |-> mockStrategy,
                   outcome |-> r.outcome, result |-> r.result, calls |-> r.calls]
    /\ Sequential

SecureGetRootTopics(role, mockStrategy) ==
    /\ StoreChanged
    /\ UNCHANGED <<data, nextUuid, createdUnder>>
    /\ LET r == Secure_getRootTopics(data, role, mockStrategy)
       IN last' = [op |-> "secure.getRootTopics", role |-> role,
                   mockStrategy |-> mockStrategy,
                   outcome |-> r.outcome, result |-> r.result, calls |-> r.calls]
    /\ Sequential

SecureGetAllTopicVersions(rootTopicId, role, mockStrategy) ==
    /\ StoreChanged
    /\ UNCHANGED <<data, nextUuid, createdUnder>>
    /\ LET r == Secure_getAllTopicVersions(data, rootTopicId, role, mockStrategy)
       IN last' = [op |-> "secure.getAllTopicVersions", id |-> rootTopicId,
                   role |-> role, mockStrategy |-> mockStrategy,
                   outcome |-> r.outcome, result |-> r.result, calls |-> r.calls]
    /\ Sequential

SecureGetChildTopics(parentId, role, mockStrategy) ==
    /\ StoreChanged
    /\ UNCHANGED <<data, nextUuid, createdUnder>>
    /\ LET r == Secure_getChildTopics(data, parentId, role, mockStrategy)
       IN last' = [op |-> "secure.getChildTopics", id |-> parentId, role |-> role,
                   mockStrategy |-> mockStrategy,
                   outcome |-> r.outcome, result |-> r.result, calls |-> r.calls]
    /\ Sequential

SecureGetTopicTree(topicId, role, mockStrategy) ==
    /\ StoreChanged
    /\ UNCHANGED <<data, nextUuid, createdUnder>>
    /\ LET r == Secure_getTopicTree(data, topicId, role, mockStrategy)
       IN last' = [op |-> "secure.getTopicTree", id |-> topicId, role |-> role,
                   mockStrategy |-> mockStrategy,
                   outcome |-> r.outcome, result |-> r.result, calls |-> r.calls]
    /\ Sequential

SecureFindPath(startTopicId, endTopicId, role, mockStrategy) ==
    /\ StoreChanged
    /\ UNCHANGED <<data, nextUuid, createdUnder>>
    /\ LET r == Secure_findPath(data, startTopicId, endTopicId, role, mockStrategy)
       IN last' = [op |-> "secure.findPath", id |-> startTopicId, id2 |-> endTopicId,
                   role |-> role, mockStrategy |-> mockStrategy,
                   outcome |-> r.outcome, result |-> r.result, calls |-> r.calls]
    /\ Sequential

NextSecure ==
    \/ \E s \in Strategies, a \in ActionInputs, r \in RoleInputs : StrategyDecision(s, a, r)
    \/ \E r \in RoleInputs : FactoryGetStrategy(r)
    \/ \E n \in NameInputs, c \in ContentInputs, u \in Writers, p \in ParentInputs :
           SecureCreateTopic(n, c, u[1], u[2], p)
    \/ \E i \in IdInputs, c \in NewContentInputs, u \in Writers, n \in NewNameInputs :
           SecureUpdateTopic(i, c, u[1], u[2], n)
    \/ \E i \in IdInputs, u \in Writers : StoreChanged /\ SecureDeleteTopic(i, u[1], u[2])
    \/ \E i \in IdInputs, u \in Principals : SecureGetTopic(i, u[1], u[2])
    \/ \E i \in IdInputs, v \in VersionInputs, u \in Principals :
           SecureGetTopicVersion(i, v, u[1], u[2])
    \/ \E i \in IdInputs, u \in Principals : SecureGetLatestTopicVersion(i, u[1], u[2])
    \/ \E u \in Principals : SecureGetAllTopics(u[1], u[2])
    \/ \E u \in Principals : SecureGetRootTopics(u[1], u[2])
    \/ \E i \in IdInputs, u \in Principals : SecureGetAllTopicVersions(i, u[1], u[2])
    \/ \E i \in IdInputs, u \in Principals : SecureGetChildTopics(i, u[1], u[2])
    \/ \E i \in IdInputs, u \in Principals : SecureGetTopicTree(i, u[1], u[2])
    \/ \E i \in IdInputs, j \in IdInputs, u \in Principals :
           SecureFindPath(i, j, u[1], u[2])

SpecSecure == Init /\ [][NextSecure]_vars

\* The calls of the role scenario: users of each role, with the real factory,
\* create and delete topics and list them.
NextRoles ==
    \/ \E n \in NameInputs, c \in ContentInputs, r \in RoleInputs, p \in ParentInputs :
           SecureCreateTopic(n, c, r, <<>>, p)
    \/ \E i \in IdInputs, r \in RoleInputs : StoreChanged /\ SecureDeleteTopic(i, r, <<>>)
    \/ \E r \in RoleInputs : SecureGetAllTopics(r, <<>>)

SpecRoles == Init /\ [][NextRoles]_vars

\* ------------------------------------------- versions replaced in the store
\* Versions a record is taken through.
VersionCap == 3
\* Entities handed to the store's create in the store-level runs.
MaxEntities == 2

\* TopicRepository.createNewVersion(id, newContent) of
\* repositories/TopicRepository.ts
RepositoryCreateNewVersion(id, newContent) ==
    /\ \A i \in 1..Len(data) : data[i].version < VersionCap
    /\ LET r == TopicRepository_createNewVersion(data, id, newContent, nextUuid)
       IN /\ data' = r.data
          /\ last' = [op |-> "repository.createNewVersion", id |-> id,
                      content |-> newContent, pre |-> data,
                      outcome |-> r.outcome, result |-> r.result]
    /\ UNCHANGED <<nextUuid, createdUnder>>
    /\ Sequential

\* database.update(id, topic.createNewVersion(newContent)) as in the store's
\* test, topic being the j-th stored record.
DatabaseUpdate(id, j, newContent) ==
    /\ j <= Len(data)
    /\ \A i \in 1..Len(data) : data[i].version < VersionCap
    /\ LET entity == Topic_createNewVersion(data[j], newContent, <<>>, nextUuid)
           r == Db_update(data, id, entity)
       IN /\ data' = r.data
          /\ last' = [op |-> "database.update", id |-> id, topic |-> data[j],
                      content |-> newContent, entity |-> entity, pre |-> data,
                      outcome |-> r.outcome, result |-> r.result]
    /\ UNCHANGED <<nextUuid, createdUnder>>
    /\ Sequential

NextStore ==
    \/ \E n \in NameInputs, c \in ContentInputs :
           nextUuid <= MaxEntities /\ CreateTopic(n, c, Nil)
    \/ \E i \in IdInputs, c \in NewContentInputs : RepositoryCreateNewVersion(i, c)
    \/ \E i \in IdInputs, j \in 1..MaxEntities, c \in NewContentInputs :
           DatabaseUpdate(i, j, c)
    \/ \E i \in IdInputs : DeleteTopic(i)

SpecStore == Init /\ [][NextStore]_vars

\* ------------------------------------ concurrent calls on one JsonDatabase
\* Calls that can be in flight at once.
MaxTasks == 2
Tasks == 1..MaxTasks
Idle == [pc |-> "idle"]
DbOps == {"create", "findById", "findAll", "delete"}

\* A database that has been constructed and not used yet, in a directory
\* that holds no file or a file of an earlier run.
InitDb ==
    /\ data = <<>>
    /\ nextUuid = 1
    /\ createdUnder = <<>>
    /\ last = [op |-> "none"]
    /\ initialized = FALSE
    /\ file \in {<<>>, << <<>> >>}
    /\ inflight = [t \in Tasks |-> Idle]
    /\ loads = 0
    /\ acked = {}

\* The statements of a store operation after `await this.initialize()`, run
\* on the map d up to the operation's next await or its return. task is the
\* call as it is suspended next (Idle once it has returned), out the record
\* of a returned call, removed the ids taken out of the map.
Db_body(call, d) ==
    CASE call.op = "create" ->
           LET r == Db_create(d, call.entity)
           IN IF r.err # "ok"
              THEN [data |-> d, task |-> Idle, done |-> TRUE, removed |-> {},
                    out |-> [op |-> "database.create", id |-> call.entity.id,
                             outcome |-> r.err]]
              ELSE [data |-> r.data, done |-> FALSE, removed |-> {}, out |-> <<>>,
                    task |-> [pc |-> "saveToFile", op |-> "create",
                              entity |-> call.entity, entities |-> r.data,
                              deleted |-> FALSE]]
      [] call.op = "findById" ->
           [data |-> d, task |-> Idle, done |-> TRUE, removed |-> {},
            out |-> [op |-> "database.findById", id |-> call.id, outcome |-> "ok",
                     result |-> Db_findById(d, call.id),
                     wasAcked |-> call.id \in acked]]
      [] call.op = "findAll" ->
           [data |-> d, task |-> Idle, done |-> TRUE, removed |-> {},
            out |-> [op |-> "database.findAll", outcome |-> "ok",
                     result |-> Db_findAll(d), wasAcked |-> acked]]
      [] call.op = "delete" ->
           LET r == Db_delete(d, call.id)
           IN IF ~r.ok
              THEN [data |-> d, task |-> Idle, done |-> TRUE, removed |-> {},
                    out |-> [op |-> "database.delete", id |-> call.id,
                             outcome |-> "false"]]
              ELSE [data |-> r.data, done |-> FALSE, removed |-> {call.id},
                    out |-> <<>>,
                    task |-> [pc |-> "saveToFile", op |-> "delete", id |-> call.id,
                              entities |-> r.data]]

\* The call of task t goes on behind `await this.initialize()` on the map d.
\* A create that is still saving learns that its record has been deleted.
Resume(t, call, d) ==
    LET b == Db_body(call, d)
    IN /\ data' = b.data
       /\ inflight' = [u \in Tasks |->
              IF u = t THEN b.task
              ELSE IF /\ inflight[u].pc = "saveToFile"
                      /\ inflight[u].op = "create"
                      /\ inflight[u].entity.id \in b.removed
                   THEN [inflight[u] EXCEPT !.deleted = TRUE]
                   ELSE inflight[u]]
       /\ last' = IF b.done THEN b.out ELSE last
       /\ acked' = acked \ b.removed

\* A store operation is called: initialize returns at once when the flag is
\* set, else it awaits fs.mkdir.
DbCall(t, op, id) ==
    /\ inflight[t] = Idle
    /\ op = "create" => nextUuid <= MaxEntities
    /\ LET call == IF op = "create"
                   THEN [op |-> op, entity |-> Topic(<<"n">>, <<"c">>, 1, Nil, Nil, Nil,
                                                     Nil, Nil, nextUuid)]
                   ELSE [op |-> op, id |-> id]
       IN IF initialized
          THEN Resume(t, call, data)
          ELSE /\ inflight' = [inflight EXCEPT ![t] = [pc |-> "mkdir", call |-> call]]
               /\ UNCHANGED <<data, last, acked>>
    /\ nextUuid' = IF op = "create" THEN nextUuid + 1 ELSE nextUuid
    /\ UNCHANGED <<createdUnder, initialized, file, loads>>

\* fs.mkdir resolves; initialize awaits fs.readFile.
Mkdir(t) ==
    /\ inflight[t].pc = "mkdir"
    /\ inflight' = [inflight EXCEPT ![t].pc = "readFile"]
    /\ UNCHANGED <<data, nextUuid, createdUnder, last, initialized, file, loads, acked>>

\* The file is read: its contents of this moment, or ENOENT (<<>>).
ReadFile(t) ==
    /\ inflight[t].pc = "readFile"
    /\ inflight' = [inflight EXCEPT ![t] = [pc |-> "loaded", call |-> inflight[t].call,
                                            fileContent |-> file]]
    /\ UNCHANGED <<data, nextUuid, createdUnder, last, initialized, file, loads, acked>>

\* initialize resumes behind fs.readFile: with contents it replaces the map,
\* sets the flag and returns, and the operation goes on; on ENOENT it awaits
\* the fs.writeFile of an empty array.
Load(t) ==
    /\ inflight[t].pc = "loaded"
    /\ IF inflight[t].fileContent = <<>>
       THEN /\ inflight' = [inflight EXCEPT ![t] = [pc |-> "writeFile",
                                                     call |-> inflight[t].call]]
            /\ UNCHANGED <<data, last, initialized, loads, acked>>
       ELSE /\ initialized' = TRUE
            /\ loads' = loads + 1
            /\ Resume(t, inflight[t].call, inflight[t].fileContent[1])
    /\ UNCHANGED <<nextUuid, createdUnder, file>>

\* The empty file has been written: initialize sets the flag and returns,
\* and the operation goes on with the map as it is.
WriteEmptyFile(t) ==
    /\ inflight[t].pc = "writeFile"
    /\ file' = << <<>> >>
    /\ initialized' = TRUE
    /\ Resume(t, inflight[t].call, data)
    /\ UNCHANGED <<nextUuid, createdUnder, loads>>

\* saveToFile's fs.writeFile of the entities it took from the map resolves,
\* and create or delete returns.
SaveToFile(t) ==
    /\ inflight[t].pc = "saveToFile"
    /\ file' = <<inflight[t].entities>>
    /\ inflight' = [inflight EXCEPT ![t] = Idle]
    /\ IF inflight[t].op = "create"
       THEN /\ last' = [op |-> "database.create", id |-> inflight[t].entity.id,
                        outcome |-> "ok"]
            /\ acked' = IF inflight[t].deleted THEN acked
                        ELSE acked \cup {inflight[t].entity.id}
       ELSE /\ last' = [op |-> "database.delete", id |-> inflight[t].id,
                        outcome |-> "true"]
            /\ UNCHANGED acked
    /\ UNCHANGED <<data, nextUuid, createdUnder, initialized, loads>>

NextInit ==
    \/ \E t \in Tasks, op \in DbOps, i \in 1..MaxEntities : DbCall(t, op, i)
    \/ \E t \in Tasks : Mkdir(t)
    \/ \E t \in Tasks : ReadFile(t)
    \/ \E t \in Tasks : Load(t)
    \/ \E t \in Tasks : WriteEmptyFile(t)
    \/ \E t \in Tasks : SaveToFile(t)

SpecInit == InitDb /\ [][NextInit]_vars

\* ------------------------------------- concurrent calls on one TopicService
\* createTopic calls made while calls overlap (each is given an id).
MaxRaceCreates == 3

\* A service whose database is initialized and empty, with no call in flight.
InitRace ==
    /\ data = <<>>
    /\ nextUuid = 1
    /\ createdUnder = <<>>
    /\ last = [op |-> "none"]
    /\ initialized = TRUE
    /\ file = << <<>> >>
    /\ inflight = [t \in Tasks |-> Idle]
    /\ loads = 0
    /\ acked = {}

\* The call of task t returns or throws.
Return(t, outcome) ==
    /\ inflight' = [inflight EXCEPT ![t] = Idle]
    /\ last' = [op |-> inflight[t].op, outcome |-> outcome]

\* repository.create(topic) up to the await in database.create: validate
\* throws, or the call is suspended in front of the store's create.
BeginCreate(t, call, topic) ==
    IF Topic_validate(topic) # "ok"
    THEN /\ inflight' = [inflight EXCEPT ![t] = Idle]
         /\ last' = [op |-> call.op, outcome |-> Topic_validate(topic)]
    ELSE /\ inflight' = [inflight EXCEPT ![t] = [pc |-> "storeCreate", op |-> call.op,
                                                  entity |-> topic]]
         /\ UNCHANGED last

\* TopicService.createTopic is called and runs to its first await: the
\* parent lookup, or, without a parent id, the store's create. uuid is the
\* id the record of this call will get.
CallCreateTopic(t, name, content, parentTopicId) ==
    /\ inflight[t] = Idle
    /\ nextUuid <= MaxRaceCreates
    /\ LET call == [op |-> "createTopic", name |-> name, content |-> content,
                    parentTopicId |-> parentTopicId, uuid |-> nextUuid]
       IN IF parentTopicId # Nil
          THEN /\ inflight' = [inflight EXCEPT ![t] = call @@ [pc |-> "parentLookup"]]
               /\ UNCHANGED last
          ELSE BeginCreate(t, call, Topic(name, content, 1, Nil, Nil, Nil, Nil, Nil,
                                          nextUuid))
    /\ nextUuid' = nextUuid + 1
    /\ UNCHANGED <<data, createdUnder, initialized, file, loads, acked>>

\* createTopic resumes with the parent it looked up: it throws, or calls
\* createChildTopic, which awaits its own lookup of the parent.
ParentLookup(t) ==
    /\ inflight[t].pc = "parentLookup"
    /\ IF Db_findById(data, inflight[t].parentTopicId) = <<>>
       THEN Return(t, "ParentNotFound")
       ELSE /\ inflight' = [inflight EXCEPT ![t].pc = "childParentLookup"]
            /\ UNCHANGED last
    /\ UNCHANGED <<data, nextUuid, createdUnder, initialized, file, loads, acked>>

\* createChildTopic resumes with the parent it looked up: it returns null,
\* or builds the child and calls create.
ChildParentLookup(t) ==
    /\ inflight[t].pc = "childParentLookup"
    /\ LET found == Db_findById(data, inflight[t].parentTopicId)
       IN IF found = <<>>
          THEN Return(t, "null")
          ELSE BeginCreate(t, inflight[t],
                           Topic_createChildTopic(found[1], inflight[t].name,
                                                  inflight[t].content, inflight[t].uuid))
    /\ UNCHANGED <<data, nextUuid, createdUnder, initialized, file, loads, acked>>

\* database.create resumes behind its await: it throws, or sets the record
\* and awaits saveToFile.
StoreCreate(t) ==
    /\ inflight[t].pc = "storeCreate"
    /\ Resume(t, [op |-> "create", entity |-> inflight[t].entity], data)
    /\ UNCHANGED <<nextUuid, createdUnder, initialized, file, loads>>

\* TopicService.deleteTopic is called and awaits the query for children.
CallDeleteTopic(t, id) ==
    /\ inflight[t] = Idle
    /\ inflight' = [inflight EXCEPT ![t] = [pc |-> "childQuery", op |-> "deleteTopic",
                                            id |-> id]]
    /\ UNCHANGED <<data, nextUuid, createdUnder, last, initialized, file, loads, acked>>

\* deleteTopic resumes with the children it found: it throws, or calls the
\* repository's delete, which awaits in database.delete.
ChildQuery(t) ==
    /\ inflight[t].pc = "childQuery"
    /\ IF Len(Repo_findByParentId(data, inflight[t].id)) > 0
       THEN Return(t, "HasChildren")
       ELSE /\ inflight' = [inflight EXCEPT ![t].pc = "storeDelete"]
            /\ UNCHANGED last
    /\ UNCHANGED <<data, nextUuid, createdUnder, initialized, file, loads, acked>>

\* database.delete resumes behind its await: it returns false, or removes
\* the record and awaits saveToFile.
StoreDelete(t) ==
    /\ inflight[t].pc = "storeDelete"
    /\ Resume(t, [op |-> "delete", id |-> inflight[t].id], data)
    /\ UNCHANGED <<nextUuid, createdUnder, initialized, file, loads>>

NextRace ==
    \/ \E t \in Tasks, n \in NameInputs, p \in 0..MaxRaceCreates :
           CallCreateTopic(t, n, <<"c">>, p)
    \/ \E t \in Tasks : ParentLookup(t)
    \/ \E t \in Tasks : ChildParentLookup(t)
    \/ \E t \in Tasks : StoreCreate(t)
    \/ \E t \in Tasks, i \in 1..MaxRaceCreates : CallDeleteTopic(t, i)
    \/ \E t \in Tasks : ChildQuery(t)
    \/ \E t \in Tasks : StoreDelete(t)
    \/ \E t \in Tasks : SaveToFile(t)

SpecRace == InitRace /\ [][NextRace]_vars

\* ============================================================== properties
Records(d) == {d[i] : i \in 1..Len(d)}
StoredIds(d) == {d[i].id : i \in 1..Len(d)}
NonBlank(s) == Len(Trim(s)) > 0
HasChild(d, id) == \E t \in Records(d) : t.parentTopicId = id
MaxVersion(d, rootTopicId) ==
    CHOOSE v \in {t.version : t \in Records(d)} :
        /\ \E t \in Records(d) : t.rootTopicId = rootTopicId /\ t.version = v
        /\ \A t \in Records(d) : t.rootTopicId = rootTopicId => t.version <= v

\* The latest call was updateTopic on a stored record with non-blank content.
UpdateOfStored ==
    /\ last.op = "updateTopic"
    /\ Db_has(last.pre, last.id)
    /\ NonBlank(last.content)

\* C1: an updateTopic on a stored record R succeeds and leaves the store
\* holding R unchanged together with a new record (version = R.version + 1,
\* previousVersionId = R.id, rootTopicId = R.rootTopicId), and every version
\* of the logical topic is retrievable with getTopicVersion(rootId, n).
C1_UpdateKeepsAllVersions ==
    UpdateOfStored =>
        LET R == Db_findById(last.pre, last.id)[1]
        IN /\ last.outcome = "ok"
           /\ data = Append(last.pre, last.result[1])
           /\ last.result[1].version = R.version + 1
           /\ last.result[1].previousVersionId = R.id
           /\ last.result[1].rootTopicId = R.rootTopicId
           /\ \A n \in 1..last.result[1].version :
                  Repo_findVersion(data, R.rootTopicId, n) # <<>>

\* C2: each updateTopic of a chain yields a record whose version is one more
\* than that of the record it was derived from and whose rootTopicId is the
\* same, and getLatestTopicVersion(root) returns the stored record with the
\* maximum version of that root.
C2_UpdateChainVersions ==
    UpdateOfStored =>
        LET R == Db_findById(last.pre, last.id)[1]
            latest == Repo_findLatestVersion(data, R.rootTopicId)
        IN /\ last.outcome = "ok"
           /\ last.result[1].version = R.version + 1
           /\ last.result[1].rootTopicId = R.rootTopicId
           /\ latest # <<>>
           /\ latest[1] \in Records(data)
           /\ latest[1].version = MaxVersion(data, R.rootTopicId)
           /\ latest[1].version = last.result[1].version

C4_DeleteWithChildrenFails ==
    ((last.op = "deleteTopic" \/ (last.op = "secure.deleteTopic" /\ last.role = ADMIN))
        /\ HasChild(last.pre, last.id))
    => (last.outcome = "HasChildren" /\ data = last.pre)

C4_Witness ==
    /\ last.op = "secure.deleteTopic"
    /\ last.role = ADMIN
    /\ HasChild(last.pre, last.id)
    /\ last.outcome = "HasChildren"

\* C5: deleteTopic on a stored, childless topic returns true and removes
\* exactly the record with that id, every other record staying as it was;
\* deleteTopic on an id that is not stored returns false and changes nothing.
C5_DeleteRemovesExactlyTarget ==
    last.op = "deleteTopic" =>
        /\ (Db_has(last.pre, last.id) /\ ~HasChild(last.pre, last.id)) =>
               /\ last.outcome = "true"
               /\ Len(data) = Len(last.pre) - 1
               /\ ~Db_has(data, last.id)
               /\ data = SelectSeq(last.pre, LAMBDA t : t.id # last.id)
        /\ ~Db_has(last.pre, last.id) =>
               (last.outcome = "false" /\ data = last.pre)

C5_Witness ==
    /\ last.op = "deleteTopic"
    /\ last.outcome = "true"
    /\ Len(data) >= 2

\* The latest call was createTopic with a parent id that was stored.
CreateUnderStoredParent ==
    /\ last.op = "createTopic"
    /\ last.parentTopicId # Nil
    /\ Db_has(last.pre, last.parentTopicId)

\* The new record is a version-1 child of the parent asked for, appended to
\* the store.
CreatedAsChild ==
    /\ last.outcome = "ok"
    /\ last.result[1].version = 1
    /\ last.result[1].parentTopicId = last.parentTopicId
    /\ ~Db_has(last.pre, last.result[1].id)
    /\ data = Append(last.pre, last.result[1])

\* C6 as stated: createTopic(name, content, parentId) with parentId naming a
\* stored topic P persists a new version-1 record with parentTopicId = P.id,
\* whatever the name and the content.
C6_CreateChildAlwaysPersists == CreateUnderStoredParent => CreatedAsChild

\* C6 amended: createTopic with a non-blank name and content and a parentId
\* naming a stored topic P persists a new version-1 record T with
\* parentTopicId = P.id; getChildTopics(P.id) returns every stored record made
\* under P; with a parentId naming no stored topic the call fails with the
\* parent-not-found error and the store is unchanged.
C6_CreateChildPersists ==
    /\ (CreateUnderStoredParent /\ NonBlank(last.name) /\ NonBlank(last.content))
           => CreatedAsChild
    /\ \A t \in Records(data) :
           (t.id \in DOMAIN createdUnder /\ createdUnder[t.id] # Nil)
               => \E i \in 1..Len(Repo_findByParentId(data, createdUnder[t.id])) :
                      Repo_findByParentId(data, createdUnder[t.id])[i] = t
    /\ (last.op = "createTopic" /\ last.parentTopicId # Nil
            /\ ~Db_has(last.pre, last.parentTopicId))
           => (last.outcome = "ParentNotFound" /\ data = last.pre)

\* A child was made under a stored parent, and a later call has run.
C6_Witness ==
    /\ last.op = "getChildTopics"
    /\ \E t \in Records(data) : t.id \in DOMAIN createdUnder /\ createdUnder[t.id] = last.id
    /\ Len(last.result) >= 2

\* C7: every stored record whose parentTopicId is present names a record
\* that is stored.
C7_ParentIsStored ==
    \A t \in Records(data) : t.parentTopicId # Nil => Db_has(data, t.parentTopicId)

\* A parent with a stored child was the target of a delete.
C7_Witness ==
    /\ last.op = "deleteTopic"
    /\ HasChild(data, last.id)
    /\ Db_has(data, last.id)

\* ------------------------------------------------ graph notions, stated apart
\* a and b are stored and one is the parent of the other.
Adjacent(d, a, b) ==
    \E t, u \in Records(d) :
        /\ t.id = a /\ u.id = b
        /\ (t.parentTopicId = b \/ u.parentTopicId = a)

\* The stored ids within k parent/child steps of the ids in S.
RECURSIVE Ball(_, _, _)
Ball(d, S, k) ==
    IF k = 0 THEN S
    ELSE Ball(d, S \cup {b \in StoredIds(d) : \E a \in S : Adjacent(d, a, b)}, k - 1)

Connected(d, a, b) == b \in Ball(d, {a}, Len(d))

Distance(d, a, b) ==
    CHOOSE k \in 0..Len(d) :
        /\ b \in Ball(d, {a}, k)
        /\ \A j \in 0..(k - 1) : b \notin Ball(d, {a}, j)

\* The stored ids that have ancestor as parent, grandparent, ...
RECURSIVE DescendantIds(_, _, _)
DescendantIds(d, S, k) ==
    IF k = 0 THEN S
    ELSE DescendantIds(d, S \cup {t.id : t \in {u \in Records(d) : u.parentTopicId \in S}},
                       k - 1)

Descendants(d, rootId) ==
    {t \in Records(d) : t.id \in DescendantIds(d, {rootId}, Len(d)) /\ t.id # rootId}

\* C8: findPath(A, A) for a stored A is [A]; findPath(A, B) is absent when A
\* or B is not stored, and when both are stored but not connected.
C8_FindPathTrivialAndAbsent ==
    last.op = "findPath" =>
        /\ (last.id = last.id2 /\ Db_has(data, last.id)) =>
               (last.outcome = "ok" /\ last.result = Db_findById(data, last.id)
                   /\ Len(last.result) = 1)
        /\ (~Db_has(data, last.id) \/ ~Db_has(data, last.id2)) => last.outcome = "null"
        /\ (Db_has(data, last.id) /\ Db_has(data, last.id2)
                /\ ~Connected(data, last.id, last.id2)) => last.outcome = "null"

\* Two stored topics without a connecting chain were the arguments.
C8_Witness ==
    /\ last.op = "findPath"
    /\ Db_has(data, last.id) /\ Db_has(data, last.id2)
    /\ ~Connected(data, last.id, last.id2)
    /\ \E t \in Records(data) : t.parentTopicId # Nil

\* C9: for stored, connected start and end, findPath returns a sequence that
\* begins with start, ends with end, whose consecutive members are parent and
\* child, and whose length is the minimum over all connecting sequences.
C9_FindPathShortest ==
    (last.op = "findPath" /\ Db_has(data, last.id) /\ Db_has(data, last.id2)
        /\ Connected(data, last.id, last.id2))
    => /\ last.outcome = "ok"
       /\ Len(last.result) >= 1
       /\ last.result[1].id = last.id
       /\ last.result[Len(last.result)].id = last.id2
       /\ \A i \in 1..Len(last.result) : last.result[i] \in Records(data)
       /\ \A i \in 1..(Len(last.result) - 1) :
              Adjacent(data, last.result[i].id, last.result[i + 1].id)
       /\ Len(last.result) = Distance(data, last.id, last.id2) + 1

\* A path over at least three topics was found.
C9_Witness ==
    /\ last.op = "findPath"
    /\ last.outcome = "ok"
    /\ Len(last.result) >= 3

\* The topics of a tree, in pre-order.
RECURSIVE Flatten(_)
RECURSIVE FlattenAll(_, _)
FlattenAll(trees, i) ==
    IF i > Len(trees) THEN <<>> ELSE Flatten(trees[i]) \o FlattenAll(trees, i + 1)

Flatten(tree) == <<tree.topic>> \o FlattenAll(tree.children, 1)

\* Every node of the tree holds exactly the children of its topic.
RECURSIVE NestedUnderParent(_)
NestedUnderParent(tree) ==
    \A i \in 1..Len(tree.children) :
        /\ tree.children[i].topic.parentTopicId = tree.topic.id
        /\ NestedUnderParent(tree.children[i])

\* C10: getTopicTree(root) of a stored root has root at the top, holds every
\* transitive descendant of root exactly once, each directly under the node
\* of its parent, and nothing else; of an id that is not stored it is absent.
C10_TreeHoldsExactlyDescendants ==
    last.op = "getTopicTree" =>
        /\ ~Db_has(data, last.id) => last.outcome = "null"
        /\ Db_has(data, last.id) =>
               /\ last.outcome = "ok"
               /\ LET tree == last.result[1]
                      flat == Flatten(tree)
                  IN /\ <<tree.topic>> = Db_findById(data, last.id)
                     /\ {flat[i] : i \in 1..Len(flat)}
                            = Descendants(data, last.id) \cup {tree.topic}
                     /\ Len(flat) = Cardinality(Descendants(data, last.id)) + 1
                     /\ NestedUnderParent(tree)

\* A tree with a grandchild was built while a non-descendant was stored.
C10_Witness ==
    /\ last.op = "getTopicTree"
    /\ last.outcome = "ok"
    /\ \E i \in 1..Len(last.result[1].children) :
           Len(last.result[1].children[i].children) >= 1
    /\ Len(data) > Len(Flatten(last.result[1]))

\* ------------------------------------------------------------ C11 .. C20
\* The role a strategy class is written for, and what that role may do.
OwnRole(strategy) ==
    CASE strategy = "AdminStrategy" -> ADMIN
      [] strategy = "EditorStrategy" -> EDITOR
      [] strategy = "ViewerStrategy" -> VIEWER

Permitted(role) ==
    CASE role = ADMIN -> {"create", "read", "update", "delete"}
      [] role = EDITOR -> {"create", "read", "update"}
      [] role = VIEWER -> {"read"}

\* C11: a strategy of any of the three classes answers true exactly when the
\* user has the role of the class and the action is one that role may do
\* (full access: all four, contributor: create, read, update, read-only:
\* read); every other user, a more privileged one included, is denied.
C11_StrategyDecidesByOwnRole ==
    last.op = "strategy" =>
        (last.result <=> (/\ last.role = OwnRole(last.strategy)
                          /\ last.action \in Permitted(last.role)))

\* The contributor strategy denied a full-access user a read.
C11_Witness ==
    /\ last.op = "strategy"
    /\ last.strategy = "EditorStrategy"
    /\ last.role = ADMIN
    /\ last.action = "read"
    /\ last.result = FALSE

\* C12: getStrategy gives the full-access strategy to a full-access user, the
\* contributor strategy to a contributor, the read-only strategy to a
\* read-only user, and throws for a user of any other role.
C12_GetStrategyByRole ==
    last.op = "getStrategy" =>
        /\ last.role \in UserRole =>
               /\ last.outcome = "ok"
               /\ last.result \in Strategies
               /\ OwnRole(last.result) = last.role
        /\ last.role \notin UserRole => last.outcome = "NoStrategy"

\* getStrategy threw for a role outside the three.
C12_Witness ==
    /\ last.op = "getStrategy"
    /\ last.role \notin UserRole
    /\ last.outcome = "NoStrategy"

\* The names in a sequence of calls.
Called(calls) == {calls[i] : i \in 1..Len(calls)}

EngineMutators == {"createTopic", "updateTopic", "deleteTopic"}

\* The strategy of the caller of the latest facade call, "None" without one.
CallerStrategy == Secure_getStrategy(last.role, last.mockStrategy)

\* The caller's strategy denies what the latest call asks for: creating, or
\* updating or deleting the stored record the call names (a call that names
\* no stored record meets no decision; it is the case of C15).
DeniedMutation ==
    /\ last.op \in {"secure.createTopic", "secure.updateTopic", "secure.deleteTopic"}
    /\ CallerStrategy # "None"
    /\ \/ /\ last.op = "secure.createTopic"
          /\ ~Strategy_canCreateTopic(CallerStrategy, last.role, last.mockStrategy)
       \/ /\ last.op = "secure.updateTopic"
          /\ Db_has(last.pre, last.id)
          /\ ~Strategy_canUpdateTopic(CallerStrategy, last.role, last.mockStrategy)
       \/ /\ last.op = "secure.deleteTopic"
          /\ Db_has(last.pre, last.id)
          /\ ~Strategy_canDeleteTopic(CallerStrategy, last.role, last.mockStrategy)

\* C13: a facade createTopic, updateTopic or deleteTopic whose caller's
\* strategy denies the action fails with the permission error, does not
\* invoke the engine's createTopic, updateTopic or deleteTopic, and leaves
\* the store as it was.
C13_DeniedMutationLeavesStore ==
    DeniedMutation =>
        /\ last.outcome = "PermissionDenied"
        /\ Called(last.calls) \cap EngineMutators = {}
        /\ data = last.pre

\* A read-only user was denied the update of a stored topic.
C13_Witness ==
    /\ DeniedMutation
    /\ last.op = "secure.updateTopic"
    /\ last.role = VIEWER
    /\ last.mockStrategy = <<>>
    /\ last.outcome = "PermissionDenied"

\* The latest call is a facade call made by a user of the role with the
\* real factory.
CallBy(op, role) ==
    /\ last.op = op
    /\ last.role = role
    /\ last.mockStrategy = <<>>

\* The latest call is a facade deleteTopic, by a user of the role, of a
\* stored topic without children.
DeleteOfLeafBy(role) ==
    /\ CallBy("secure.deleteTopic", role)
    /\ Db_has(last.pre, last.id)
    /\ ~HasChild(last.pre, last.id)

\* C14: through the facade, in every store, createTopic by a read-only user
\* fails with the permission error whatever the name, content and parent id;
\* deleteTopic of a stored childless topic by a contributor fails with the
\* permission error; the same deleteTopic by a full-access user returns true,
\* and no getAllTopics result from then on holds the topic.
C14_RoleScenario ==
    /\ [](CallBy("secure.createTopic", VIEWER) =>
              (last.outcome = "PermissionDenied" /\ data = last.pre))
    /\ [](DeleteOfLeafBy(EDITOR) =>
              (last.outcome = "PermissionDenied" /\ data = last.pre))
    /\ \A i \in Ids :
           []((DeleteOfLeafBy(ADMIN) /\ last.id = i) =>
                  /\ last.outcome = "true"
                  /\ [](last.op = "secure.getAllTopics" =>
                            i \notin StoredIds(last.result)))

\* getAllTopics answered a full-access user with topics while an earlier
\* topic had been deleted (only a full-access deleteTopic removes one).
C14_Witness ==
    /\ CallBy("secure.getAllTopics", ADMIN)
    /\ last.result # <<>>
    /\ \E i \in 1..(nextUuid - 1) : ~Db_has(data, i)

StrategyCalls ==
    {"getStrategy", "canCreateTopic", "canReadTopic", "canUpdateTopic", "canDeleteTopic"}

\* C15: the facade's updateTopic and deleteTopic of an id that is not stored
\* return absent and false for every caller, whatever the role, without
\* asking the factory or a strategy anything and without an error, and leave
\* the store as it was.
C15_UnstoredTargetNoCheck ==
    (last.op \in {"secure.updateTopic", "secure.deleteTopic"}
        /\ ~Db_has(last.pre, last.id))
    => /\ last.outcome = IF last.op = "secure.updateTopic" THEN "null" ELSE "false"
       /\ Called(last.calls) \cap StrategyCalls = {}
       /\ data = last.pre

\* A read-only user deleted an id that is not stored and got false, while
\* other topics were stored.
C15_Witness ==
    /\ CallBy("secure.deleteTopic", VIEWER)
    /\ ~Db_has(last.pre, last.id)
    /\ last.pre # <<>>
    /\ last.outcome = "false"

\* What the engine finds for the latest read-one call of the facade.
EngineFound ==
    CASE last.op = "secure.getTopic" -> Db_findById(data, last.id)
      [] last.op = "secure.getTopicVersion" -> Repo_findVersion(data, last.id, last.version)
      [] last.op = "secure.getLatestTopicVersion" -> Repo_findLatestVersion(data, last.id)

\* The caller of the latest facade call may read the topic.
CallerReads(topic) ==
    Strategy_canReadTopic(CallerStrategy, last.role, topic, last.mockStrategy)

\* C16: the facade's getTopic, getTopicVersion and getLatestTopicVersion
\* return absent, without an error, when the engine finds no record; when it
\* finds one, a caller whose strategy denies reading it gets the permission
\* error and a caller whose strategy allows it gets exactly that record.
C16_ReadOne ==
    last.op \in {"secure.getTopic", "secure.getTopicVersion",
                 "secure.getLatestTopicVersion"} =>
        /\ EngineFound = <<>> => (last.outcome = "null" /\ last.result = <<>>)
        /\ (EngineFound # <<>> /\ CallerStrategy # "None") =>
               IF CallerReads(EngineFound[1])
               THEN last.outcome = "ok" /\ last.result = EngineFound
               ELSE last.outcome = "PermissionDenied" /\ last.result = <<>>

\* getTopicVersion found a version the caller's strategy does not let the
\* caller read, and threw the permission error.
C16_Witness ==
    /\ last.op = "secure.getTopicVersion"
    /\ EngineFound # <<>>
    /\ CallerStrategy # "None"
    /\ ~CallerReads(EngineFound[1])
    /\ last.outcome = "PermissionDenied"

\* The candidates the engine gives the latest read-many call of the facade.
EngineList ==
    CASE last.op = "secure.getAllTopics" -> Db_findAll(data)
      [] last.op = "secure.getRootTopics" -> Repo_findRootTopics(data)
      [] last.op = "secure.getAllTopicVersions" -> Repo_findAllVersions(data, last.id)

\* The topics of a list the caller may read, in the order of the list.
RECURSIVE ReadableOf(_)
ReadableOf(topics) ==
    IF topics = <<>> THEN <<>>
    ELSE (IF CallerReads(Head(topics)) THEN <<Head(topics)>> ELSE <<>>)
             \o ReadableOf(Tail(topics))

\* C17: the facade's getAllTopics, getRootTopics and getAllTopicVersions
\* return, for every list of the engine and every read decision on its
\* items, exactly the readable items in their original order, and throw no
\* error when some or all items are denied.
C17_ReadManyFilters ==
    (last.op \in {"secure.getAllTopics", "secure.getRootTopics",
                  "secure.getAllTopicVersions"}
        /\ CallerStrategy # "None")
    => /\ last.outcome = "ok"
       /\ last.result = ReadableOf(EngineList)

\* Of three stored topics A, B, C the caller may read A and C but not B, and
\* getAllTopics returned [A, C].
C17_Witness ==
    /\ last.op = "secure.getAllTopics"
    /\ Len(data) = 3
    /\ CallerStrategy # "None"
    /\ CallerReads(data[1]) /\ ~CallerReads(data[2]) /\ CallerReads(data[3])
    /\ last.result = <<data[1], data[3]>>

\* Every call of the name b in a sequence of calls comes after a call of the
\* name a.
CalledBefore(calls, a, b) ==
    \A j \in 1..Len(calls) :
        calls[j] = b => \E i \in 1..(j - 1) : calls[i] = a

RECURSIVE ChainReadable(_, _, _)
ChainReadable(d, rootId, topic) ==
    \/ topic.id = rootId
    \/ /\ CallerReads(topic)
       /\ Db_has(d, topic.parentTopicId)
       /\ ChainReadable(d, rootId, Db_findById(d, topic.parentTopicId)[1])

\* C19: the facade's getTopicTree of a stored root the caller may not read
\* throws the permission error without asking the engine for the tree;
\* otherwise the tree it returns holds, under the root, a descendant exactly
\* when the caller may read every topic on the chain from the root down to
\* it (a readable topic under a denied one is left out), each once, under
\* its parent and in the order of the engine's tree.
C19_TreePrunedAtDenial ==
    (last.op = "secure.getTopicTree" /\ Db_has(data, last.id)
        /\ CallerStrategy # "None")
    => IF ~CallerReads(Db_findById(data, last.id)[1])
       THEN /\ last.outcome = "PermissionDenied"
            /\ "getTopicTree" \notin Called(last.calls)
       ELSE /\ last.outcome = "ok"
            /\ LET tree == last.result[1]
                   flat == Flatten(tree)
                   whole == Flatten(Svc_getTopicTree(data, last.id).result[1])
               IN /\ <<tree.topic>> = Db_findById(data, last.id)
                  /\ flat = SelectSeq(whole,
                                LAMBDA t : ChainReadable(data, last.id, t))
                  /\ {flat[i] : i \in 1..Len(flat)}
                         = {t \in Descendants(data, last.id) \cup {tree.topic} :
                                ChainReadable(data, last.id, t)}
                  /\ NestedUnderParent(tree)

\* A tree was returned without a grandchild of the root that the caller may
\* read, because the caller may not read the child above it.
C19_Witness ==
    /\ last.op = "secure.getTopicTree"
    /\ last.outcome = "ok"
    /\ \E t \in Descendants(data, last.id) :
           /\ CallerReads(t)
           /\ ~ChainReadable(data, last.id, t)
           /\ t \notin {Flatten(last.result[1])[i] :
                            i \in 1..Len(Flatten(last.result[1]))}

\* C20: the facade's findPath between two stored topics throws the
\* permission error, before the engine's findPath is asked, when the caller
\* may not read one of the two; when the caller may read both and the engine
\* finds a path, it returns that path without the topics in between that the
\* caller may not read, and without an error for them.
C20_FindPathFiltersBetween ==
    (last.op = "secure.findPath" /\ Db_has(data, last.id) /\ Db_has(data, last.id2)
        /\ CallerStrategy # "None")
    => LET path == Repo_findPath(data, last.id, last.id2)
       IN IF ~CallerReads(Db_findById(data, last.id)[1])
               \/ ~CallerReads(Db_findById(data, last.id2)[1])
          THEN /\ last.outcome = "PermissionDenied"
               /\ "findPath" \notin Called(last.calls)
          ELSE path.outcome = "ok" =>
                   /\ last.outcome = "ok"
                   /\ last.result = ReadableOf(path.result)

\* ------------------------------------------------------------ C21 .. C30
\* The latest call is an engine call that names an id no stored record has:
\* a query or an update or a delete of it, a path from or to it, or a create
\* under it.
UnresolvedEngineCall ==
    \/ /\ last.op \in {"getTopic", "getTopicTree", "getChildTopics",
                       "getTopicVersion", "getAllTopicVersions",
                       "getLatestTopicVersion"}
       /\ ~Db_has(data, last.id)
    \/ /\ last.op \in {"updateTopic", "deleteTopic"}
       /\ ~Db_has(last.pre, last.id)
    \/ /\ last.op = "findPath"
       /\ (~Db_has(data, last.id) \/ ~Db_has(data, last.id2))
    \/ /\ last.op = "createTopic"
       /\ last.parentTopicId # Nil
       /\ ~Db_has(last.pre, last.parentTopicId)

EngineOps ==
    {"createTopic", "getTopic", "updateTopic", "deleteTopic", "getTopicTree",
     "getChildTopics", "getTopicVersion", "getAllTopicVersions",
     "getLatestTopicVersion", "findPath"}

\* The latest call ended with an absent, false or empty result, not an error.
EndedAbsent ==
    \/ last.outcome \in {"null", "false"}
    \/ last.outcome = "ok" /\ last.result = <<>>

\* C21 as stated: every engine operation given an id that no stored record
\* has, createTopic with an unknown parent id included, ends with an absent,
\* empty or false result, and the only error an engine operation raises is
\* the delete-with-children error.
C21_UnresolvedNeverRaises ==
    /\ UnresolvedEngineCall => EndedAbsent
    /\ last.op \in EngineOps =>
           last.outcome \in {"ok", "null", "true", "false", "HasChildren"}

\* C21: getTopic, updateTopic, deleteTopic, getTopicTree, getChildTopics,
\* findPath and the version queries given an id that no stored record has end
\* with an absent, empty or false result and no error; createTopic with an
\* unknown parent id throws the parent-not-found error; in both cases the
\* store is left as it was.
C21_UnresolvedAbsentOrParentError ==
    UnresolvedEngineCall =>
        /\ IF last.op = "createTopic"
           THEN last.outcome = "ParentNotFound" /\ data = last.pre
           ELSE EndedAbsent
        /\ last.op \in {"updateTopic", "deleteTopic"} => data = last.pre

\* createTopic under an id that is not stored threw the parent-not-found
\* error while other topics were stored.
C21_Witness ==
    /\ last.op = "createTopic"
    /\ UnresolvedEngineCall
    /\ last.pre # <<>>
    /\ last.outcome = "ParentNotFound"

\* The record the latest updateTopic, of a stored id, hands to the store's
\* create.
UpdateCandidate ==
    Topic_createNewVersion(Db_findById(last.pre, last.id)[1], last.content, last.name,
                           Nil)

\* The latest call reached the store's create with a record whose id is
\* stored: an updateTopic of a stored id whose new version passes validate.
CreateOfStoredId ==
    /\ last.op = "updateTopic"
    /\ Db_has(last.pre, last.id)
    /\ Topic_validate(UpdateCandidate) = "ok"
    /\ Db_has(last.pre, UpdateCandidate.id)

\* C22: in every reachable state no two stored records have the same id, and
\* a create of the store given a record whose id is already stored fails and
\* leaves the stored collection as it was.
C22_StoredIdsUnique ==
    /\ \A i, j \in 1..Len(data) : data[i].id = data[j].id => i = j
    /\ CreateOfStoredId => (last.outcome = "AlreadyExists" /\ data = last.pre)

\* The store's create rejected a record whose id is stored.
C22_Witness ==
    /\ CreateOfStoredId
    /\ last.outcome = "AlreadyExists"
    /\ Len(data) >= 2

Blank(s) == Len(s) = 0 \/ Len(Trim(s)) = 0

\* The latest call is a createTopic or an updateTopic of a stored id whose
\* resulting record would have a blank name or a blank content.
BlankCandidate ==
    \/ /\ last.op = "createTopic"
       /\ Blank(last.name) \/ Blank(last.content)
    \/ /\ last.op = "updateTopic"
       /\ Db_has(last.pre, last.id)
       /\ Blank(UpdateCandidate.name) \/ Blank(UpdateCandidate.content)

\* C23: every stored record has a name and a content that are non-empty
\* after trimming and a version of at least 1; a createTopic or updateTopic
\* whose resulting record would have a blank name or content fails and
\* leaves the store unchanged.
C23_StoredRecordsValid ==
    /\ \A i \in 1..Len(data) :
          /\ ~Blank(data[i].name)
          /\ ~Blank(data[i].content)
          /\ data[i].version >= 1
    /\ BlankCandidate =>
          /\ last.outcome \in {"NameEmpty", "ContentEmpty", "ParentNotFound"}
          /\ last.outcome = "ParentNotFound" => UnresolvedEngineCall
          /\ data = last.pre

\* An updateTopic of a stored record was refused for the blank name given.
C23_Witness ==
    /\ last.op = "updateTopic"
    /\ BlankCandidate
    /\ ~Blank(last.content)
    /\ last.outcome = "NameEmpty"

\* C24 as stated: an updateTopic(id, newContent, newName?) of a stored record
\* with a valid result produces a record that carries the prior name when
\* newName is not given and newName when it is, carries newContent, and keeps
\* the prior parentTopicId, rootTopicId and createdAt.
C24_UpdateCarriesFields ==
    (CreateOfStoredId /\ Topic_validate(UpdateCandidate) = "ok") =>
        LET R == Db_findById(last.pre, last.id)[1]
        IN /\ last.outcome = "ok"
           /\ last.result # <<>>
           /\ last.result[1].name = (IF last.name = <<>> THEN R.name ELSE last.name)
           /\ last.result[1].content = last.content
           /\ last.result[1].parentTopicId = R.parentTopicId
           /\ last.result[1].rootTopicId = R.rootTopicId
           /\ last.result[1].createdAt = R.createdAt

SecureOps ==
    {"secure.createTopic", "secure.updateTopic", "secure.deleteTopic",
     "secure.getTopic", "secure.getTopicVersion", "secure.getLatestTopicVersion",
     "secure.getAllTopics", "secure.getRootTopics", "secure.getAllTopicVersions",
     "secure.getChildTopics", "secure.getTopicTree", "secure.findPath"}

\* The latest call is a facade call by a principal whose role is none of
\* the three of the enum (the factory is the real one).
UnrecognizedCall ==
    /\ last.op \in SecureOps
    /\ last.role \notin UserRole
    /\ last.mockStrategy = <<>>

\* Such a call invokes no mutator of the engine and leaves the store.
UnrecognizedMutatesNothing ==
    /\ Called(last.calls) \cap EngineMutators = {}
    /\ last.op \in {"secure.createTopic", "secure.updateTopic", "secure.deleteTopic"}
           => data = last.pre

UnrecognizedGetsNothing ==
    UnrecognizedCall =>
        /\ \/ last.outcome \in {"NoStrategy", "null", "false"}
           \/ last.outcome = "ok" /\ last.result = <<>>
           \/ /\ last.outcome = "ParentNotFound"
              /\ last.op = "secure.getChildTopics"
              /\ ~Db_has(data, last.id)
        /\ last.op = "secure.getChildTopics" /\ ~Db_has(data, last.id)
               => last.outcome = "ParentNotFound"
        /\ UnrecognizedMutatesNothing

RecognizedCall ==
    /\ last.op \in SecureOps
    /\ last.role \in UserRole
    /\ last.mockStrategy = <<>>

\* The strategy getStrategy selects for each role lets a principal of that
\* role read every stored topic.
SelectedStrategyReadsAll ==
    \A r \in UserRole : \A i \in 1..Len(data) :
        Strategy_canReadTopic(Factory_getStrategy(r), r, data[i], <<>>)

ReadManyUnfiltered ==
    (RecognizedCall /\ last.op \in {"secure.getAllTopics", "secure.getRootTopics",
                                    "secure.getAllTopicVersions"})
    => (last.outcome = "ok" /\ last.result = EngineList)

ReadNeverDenied ==
    (RecognizedCall /\ last.op \in {"secure.getTopic", "secure.getTopicVersion",
                                    "secure.getLatestTopicVersion",
                                    "secure.getTopicTree", "secure.findPath"})
    => last.outcome # "PermissionDenied"

RECURSIVE Climb(_, _, _)
Climb(d, id, k) ==
    IF k = 0 THEN id
    ELSE LET found == Db_findById(d, id)
         IN IF found = <<>> THEN Nil
            ELSE IF found[1].parentTopicId = Nil THEN Nil
            ELSE Climb(d, found[1].parentTopicId, k - 1)

\* No stored topic is its own ancestor.
Acyclic(d) ==
    \A i \in 1..Len(d) : \A k \in 1..Len(d) : Climb(d, d[i].id, k) # d[i].id

NoRepeat(s) == \A i, j \in 1..Len(s) : s[i] = s[j] => i = j

\* C28: in every state reachable by createTopic, updateTopic and deleteTopic
\* calls the parentTopicId relation is acyclic, and findAllChildrenRecursive,
\* getTopicTree and findPath terminate on the store: the recursion over the
\* children visits every stored topic at most once, and the search returns a
\* path without repetition.
C28_AcyclicAndTerminating ==
    /\ Acyclic(data)
    /\ \A i \in 1..Len(data) :
          LET all == Repo_findAllChildrenRecursive(data, data[i].id)
          IN /\ NoRepeat(all)
             /\ Len(all) < Len(data)
             /\ \A k \in 1..Len(all) : all[k].id # data[i].id
             /\ Svc_getTopicTree(data, data[i].id).outcome = "ok"
    /\ \A i, j \in 1..Len(data) :
          LET r == Repo_findPath(data, data[i].id, data[j].id)
          IN /\ r.outcome \in {"ok", "null"}
             /\ NoRepeat(r.result)
    /\ last.op \in {"getTopicTree", "findPath"} => last.outcome \in {"ok", "null"}

\* getTopicTree returned the tree of a topic that has a grandchild.
C28_Witness ==
    /\ last.op = "getTopicTree"
    /\ last.outcome = "ok"
    /\ \E k \in 1..Len(data) :
          /\ data[k].parentTopicId \notin {Nil, last.id}
          /\ Climb(data, data[k].id, 2) = last.id

\* What Topic.createNewVersion(newContent) makes of the topic: the same id,
\* the version one greater, the same createdAt, the content given.
NewVersionOf(v, topic, newContent) ==
    /\ v.id = topic.id
    /\ v.version = topic.version + 1
    /\ v.createdAt = topic.createdAt
    /\ v.content = newContent

\* C26: Topic.createNewVersion(newContent) applied to any topic returns a
\* record with the id of the topic, the version one greater, the same
\* createdAt and newContent as content; replacing the stored record by it
\* through the store's update keeps the number of stored records.
C26_NewVersionReplacesInPlace ==
    /\ \A i \in 1..Len(data) : \A c \in NewContentInputs :
          NewVersionOf(Topic_createNewVersion(data[i], c, <<>>, nextUuid), data[i], c)
    /\ last.op = "database.update" =>
          /\ NewVersionOf(last.entity, last.topic, last.content)
          /\ Len(data) = Len(last.pre)
          /\ (Db_has(last.pre, last.id) /\ last.topic.id = last.id) =>
                /\ last.outcome = "ok"
                /\ Db_findById(data, last.id) = <<last.entity>>
                /\ \A i \in 1..Len(data) :
                      data[i].id # last.id => data[i] = last.pre[i]
    /\ last.op = "repository.createNewVersion" =>
          /\ Len(data) = Len(last.pre)
          /\ last.outcome = "ok" =>
                /\ NewVersionOf(last.result[1], Db_findById(last.pre, last.id)[1],
                                last.content)
                /\ Db_findById(data, last.id) = last.result

\* The second of two stored records, already at version 2, was replaced by
\* its next version through the store's update.
C26_Witness ==
    /\ last.op = "database.update"
    /\ last.outcome = "ok"
    /\ Len(data) = 2
    /\ data[2] = last.entity
    /\ last.entity.version = 3
    /\ last.entity.createdAt # nextUuid

\* C30 as stated: with several store operations issued on one JsonDatabase
\* before its first initialization has completed, the file contents are
\* loaded into the map at most once, and a record whose create has returned
\* is in the map, and in the result of every later findById and findAll,
\* until it is deleted.
C30_LoadedOnceKeepsCreated ==
    /\ loads <= 1
    /\ \A id \in acked : Db_has(data, id)
    /\ last.op = "database.findById" /\ last.wasAcked => last.result # <<>>
    /\ last.op = "database.findAll" =>
           \A id \in last.wasAcked : Db_has(last.result, id)

\* C29 as stated: with a createTopic(name, content, P) and a deleteTopic(P)
\* in flight together and interleaved at their awaits (parent lookup, child
\* query, store create, store delete), no state holds a child record whose
\* parent record P is not stored.
C29_NoOrphanUnderInterleaving ==
    \A i \in 1..Len(data) :
        data[i].parentTopicId = Nil \/ Db_findById(data, data[i].parentTopicId) # <<>>

TypeOK ==
    /\ nextUuid \in 1..(MaxUuid + 1)
    /\ \A i \in 1..Len(data) : data[i].id \in Ids /\ data[i].version >= 1
====
